---- MODULE Spec2Model ----
(***************************************************************************)
(* A model of the risk auditor.                                            *)
(* Spec: the x402 payment gate (src/src/x402/middleware.ts): the payment   *)
(* cache, the ledger lookup and the middleware's handling of one request,  *)
(* split at its await points.                                              *)
(* ServiceSpec: the data service (src/src/services/data-service.ts): the   *)
(* sources with their circuit breakers, the response cache and             *)
(* fetchExploits, split at its await.                                      *)
(***************************************************************************)
EXTENDS Integers, Sequences, FiniteSets, Bags, TLC

\* ------------------------------------------------------------------------
\* Program constants
\* ------------------------------------------------------------------------

\* middleware.ts:12
PRICE_PER_REQUEST_LAMPORTS == 1000000

\* the literal 3600000 of middleware.ts:55, :76 and :212
ACCESS_WINDOW_MS == 3600000

\* the literal 100 of middleware.ts:150
AMOUNT_TOLERANCE == 100

\* middleware.ts:11 (the configured wallet; any non-empty address)
PAYMENT_WALLET == "CE4BW1g1vuaS8hRQAGEABPi5PCuKBfJUporJxmdinCsY"

\* an account that is not the configured wallet
OTHER_ACCOUNT == "someOtherAccount"

Accounts == {PAYMENT_WALLET, OTHER_ACCOUNT}

\* index.ts:34, the price option of every mount (0.001, a JavaScript number)
PRICE_PER_REQUEST_SOL == "0.001"

\* a route the middleware is mounted on: its path and the options given to
\* x402Middleware there
Route(path, resource, price) == [path |-> path, resource |-> resource, price |-> price]

\* index.ts:194-196, :200-203, :236-242
Routes ==
    { Route("/approval-audit", "/approval-audit", PRICE_PER_REQUEST_SOL),
      Route("/exploits", "/exploits", PRICE_PER_REQUEST_SOL),
      Route("/risk-score/:protocol", "/risk-score", PRICE_PER_REQUEST_SOL) }

\* the resource options of the mounts (index.ts:196, :203, :242)
Resources == {route.resource : route \in Routes}

\* ------------------------------------------------------------------------
\* Bounds of the model
\* ------------------------------------------------------------------------

\* requests that may be suspended at an await at the same time
MaxInFlight == 2

\* clock advances in one behaviour
MaxAdvances == 2

\* a request carrying a cached signature starts only below this requestCount
MaxCount == 2

\* the clock moves by one millisecond or by a whole access window
AdvanceSteps == {1, ACCESS_WINDOW_MS}

\* ------------------------------------------------------------------------
\* JavaScript numbers and strings.  A string is a sequence of characters;
\* a number is a record so that NaN is a value of its own.
\* ------------------------------------------------------------------------

Num(v) == [nan |-> FALSE, val |-> v]

NaN == [nan |-> TRUE, val |-> 0]

IsSpace(c) == c \in {" ", "\t", "\n"}

RECURSIVE TrimStart(_)
TrimStart(s) ==
    IF s # <<>> /\ IsSpace(Head(s)) THEN TrimStart(Tail(s)) ELSE s

DigitOf(c) ==
    CASE c = "0" -> 0 [] c = "1" -> 1 [] c = "2" -> 2 [] c = "3" -> 3
      [] c = "4" -> 4 [] c = "5" -> 5 [] c = "6" -> 6 [] c = "7" -> 7
      [] c = "8" -> 8 [] c = "9" -> 9
      [] c \in {"a", "A"} -> 10 [] c \in {"b", "B"} -> 11
      [] c \in {"c", "C"} -> 12 [] c \in {"d", "D"} -> 13
      [] c \in {"e", "E"} -> 14 [] c \in {"f", "F"} -> 15
      [] OTHER -> 99

RECURSIVE ParseDigits(_, _, _, _)
ParseDigits(s, radix, acc, seen) ==
    IF s # <<>> /\ DigitOf(Head(s)) < radix
    THEN ParseDigits(Tail(s), radix, acc * radix + DigitOf(Head(s)), TRUE)
    ELSE IF seen THEN Num(acc) ELSE NaN

\* parseInt(string) with no radix argument: leading white space, a sign, an
\* optional 0x prefix, then the longest run of digits; NaN when there is none.
parseInt(s) ==
    LET t == TrimStart(s)
        signed == t # <<>> /\ Head(t) \in {"+", "-"}
        neg == t # <<>> /\ Head(t) = "-"
        u == IF signed THEN Tail(t) ELSE t
        hex == Len(u) >= 2 /\ u[1] = "0" /\ u[2] \in {"x", "X"}
        r == ParseDigits(IF hex THEN Tail(Tail(u)) ELSE u,
                         IF hex THEN 16 ELSE 10, 0, FALSE)
    IN  IF r.nan THEN NaN ELSE Num(IF neg THEN 0 - r.val ELSE r.val)

\* Math.abs(a - b) > limit on JavaScript numbers: every comparison with NaN
\* is false.
AbsDiffAbove(a, b, limit) ==
    IF a.nan \/ b.nan THEN FALSE
    ELSE (IF a.val >= b.val THEN a.val - b.val ELSE b.val - a.val) > limit

\* Number.prototype.toString() of a non-negative integer
RECURSIVE NumberToString(_)
NumberToString(n) ==
    LET d == <<"0", "1", "2", "3", "4", "5", "6", "7", "8", "9">>
    IN  IF n < 10 THEN <<d[n + 1]>> ELSE NumberToString(n \div 10) \o <<d[(n % 10) + 1]>>

\* s || d on strings: the empty string is falsy
OrElse(s, d) == IF s = "" THEN d ELSE s

\* ------------------------------------------------------------------------
\* The ledger: what connection.getTransaction(signature) returns for each
\* signature.  A transaction lists its static account keys and the balance
\* of each before and after.
\* ------------------------------------------------------------------------

NoTx == [found |-> FALSE, keys |-> <<>>, preBalances |-> <<>>, postBalances |-> <<>>]

Tx(keys, pre, post) ==
    [found |-> TRUE, keys |-> keys, preBalances |-> pre, postBalances |-> post]

Sigs == {"sigPaid", "sigLow", "sigNoWallet", "sigNone"}

getTransaction(signature) ==
    CASE signature = "sigPaid" ->
             \* the wallet and another account are both credited exactly the price
             Tx(<<OTHER_ACCOUNT, PAYMENT_WALLET>>, <<5, 0>>, <<1000005, 1000000>>)
      [] signature = "sigLow" ->
             \* the wallet is credited one lamport less than the price
             Tx(<<OTHER_ACCOUNT, PAYMENT_WALLET>>, <<5000000, 7>>, <<4000000, 1000006>>)
      [] signature = "sigNoWallet" ->
             \* the wallet is not an account of the transaction
             Tx(<<OTHER_ACCOUNT>>, <<0>>, <<1000000>>)
      [] OTHER -> NoTx

\* messages of an RPC failure thrown by getTransaction
RpcErrorMessages == {"fetch failed"}

\* ------------------------------------------------------------------------
\* The X-PAYMENT header.  kind "absent" is a request without the header,
\* "garbage" a header whose base64/JSON decoding throws, "json" one that
\* decodes to an object; a missing field is its falsy value (0, "", <<>>).
\* ------------------------------------------------------------------------

Payload(signature, amount, recipient) ==
    [signature |-> signature, amount |-> amount, recipient |-> recipient]

Header(kind, version, scheme, network, hasPayload, signature, amount, recipient) ==
    [kind |-> kind, x402Version |-> version, scheme |-> scheme, network |-> network,
     hasPayload |-> hasPayload, payload |-> Payload(signature, amount, recipient)]

Str1000000 == <<"1", "0", "0", "0", "0", "0", "0">>

Str1000101 == <<"1", "0", "0", "0", "1", "0", "1">>

Str2000000 == <<"2", "0", "0", "0", "0", "0", "0">>

StrAbc == <<"a", "b", "c">>

\* the payloads requests carry.  sigPaid: the exact amount, one beyond the
\* tolerance, one that is no number, and a recipient that is not the wallet;
\* the others: what each step of the verification rejects.
Payloads ==
    { Payload("sigPaid", Str1000000, PAYMENT_WALLET),
      Payload("sigPaid", Str1000101, PAYMENT_WALLET),
      Payload("sigPaid", StrAbc, PAYMENT_WALLET),
      Payload("sigPaid", Str1000000, OTHER_ACCOUNT),
      Payload("sigLow", Str1000000, PAYMENT_WALLET),
      Payload("sigLow", Str2000000, PAYMENT_WALLET),
      Payload("sigNoWallet", Str1000000, PAYMENT_WALLET),
      Payload("sigNone", Str1000000, PAYMENT_WALLET) }

NoHeader == Header("absent", 0, "", "", FALSE, "", <<>>, "")

\* every payload under the scheme 'exact', the exact payment also under 'range'
WellFormedHeaders ==
    { Header("json", 1, "exact", "solana-mainnet", TRUE, p.signature, p.amount, p.recipient) :
        p \in Payloads }
    \cup { Header("json", 1, "range", "solana-mainnet", TRUE, "sigPaid", Str1000000,
                  PAYMENT_WALLET) }

BrokenHeaders ==
    { Header("garbage", 0, "", "", FALSE, "", <<>>, ""),
      Header("json", 0, "exact", "solana-mainnet", TRUE, "sigPaid", Str1000000, PAYMENT_WALLET),
      Header("json", 2, "exact", "solana-mainnet", TRUE, "sigPaid", Str1000000, PAYMENT_WALLET),
      Header("json", 1, "", "solana-mainnet", TRUE, "sigPaid", Str1000000, PAYMENT_WALLET),
      Header("json", 1, "exact", "", TRUE, "sigPaid", Str1000000, PAYMENT_WALLET),
      Header("json", 1, "exact", "solana-devnet", TRUE, "sigPaid", Str1000000, PAYMENT_WALLET),
      Header("json", 1, "exact", "solana-mainnet", FALSE, "", <<>>, ""),
      Header("json", 1, "exact", "solana-mainnet", TRUE, "", Str1000000, PAYMENT_WALLET),
      Header("json", 1, "exact", "solana-mainnet", TRUE, "sigPaid", <<>>, PAYMENT_WALLET),
      Header("json", 1, "exact", "solana-mainnet", TRUE, "sigPaid", Str1000000, "") }

Headers == {NoHeader} \cup WellFormedHeaders \cup BrokenHeaders

\* a variant that does not look into the payload
decodeX402Payment_NoPayloadCheck(header) ==
    LET inner ==
            IF header.kind = "garbage" THEN "Unexpected token in JSON"
            ELSE IF header.x402Version = 0 \/ header.scheme = "" \/ header.network = ""
                    \/ ~header.hasPayload
            THEN "Missing required x402 fields"
            ELSE ""
    IN  [ok |-> inner = "", message |-> inner]

\* decodeX402Payment: "" when the header decodes, else the message thrown
decodeX402Payment(header) ==
    LET inner ==
            IF header.kind = "garbage" THEN "Unexpected token in JSON"
            ELSE IF header.x402Version = 0 \/ header.scheme = "" \/ header.network = ""
                    \/ ~header.hasPayload
            THEN "Missing required x402 fields"
            ELSE IF header.payload.signature = "" \/ header.payload.amount = <<>>
                    \/ header.payload.recipient = ""
            THEN "Missing required payload fields"
            ELSE ""
    IN  [ok |-> inner = "", message |-> inner]

\* ------------------------------------------------------------------------
\* verifyPayment after the ledger answered (middleware.ts:123-157)
\* ------------------------------------------------------------------------

\* an error message; the numbers are those the insufficient-payment message
\* interpolates, cause is the message a decode error wraps
Err(message, cause, transferred, required) ==
    [message |-> message, cause |-> cause, transferred |-> transferred,
     required |-> required]

NoError == Err("", "", 0, 0)

\* Array.prototype.findIndex(key => key.toString() === recipient), zero-based
FindIndex(keys, recipient) ==
    IF \E i \in 1..Len(keys) : keys[i] = recipient
    THEN (CHOOSE i \in 1..Len(keys) :
              keys[i] = recipient /\ \A j \in 1..(i - 1) : keys[j] # recipient) - 1
    ELSE -1

\* middleware.ts:134
RecipientIsWallet(recipient) == recipient = PAYMENT_WALLET

\* a variant that lets the tolerance apply to the minimum price
Insufficient_Lenient(amountTransferred) ==
    amountTransferred < PRICE_PER_REQUEST_LAMPORTS - AMOUNT_TOLERANCE

\* a variant that also refuses a payment of exactly the price
Insufficient_Strict(amountTransferred) ==
    amountTransferred <= PRICE_PER_REQUEST_LAMPORTS

\* middleware.ts:142
Insufficient(amountTransferred) == amountTransferred < PRICE_PER_REQUEST_LAMPORTS

\* middleware.ts:149-150
AmountMismatch(amountTransferred, amount) ==
    AbsDiffAbove(Num(amountTransferred), parseInt(amount), AMOUNT_TOLERANCE)

VerifyTransaction(payload, tx) ==
    LET recipientIndex == FindIndex(tx.keys, payload.recipient)
        amountTransferred ==
            tx.postBalances[recipientIndex + 1] - tx.preBalances[recipientIndex + 1]
        fail(e) == [success |-> FALSE, error |-> e]
    IN  IF ~tx.found
        THEN fail(Err("Transaction not found or not confirmed", "", 0, 0))
        ELSE IF recipientIndex = -1
        THEN fail(Err("Payment recipient mismatch", "", 0, 0))
        ELSE IF ~RecipientIsWallet(payload.recipient)
        THEN fail(Err("Invalid payment recipient", "", 0, 0))
        ELSE IF Insufficient(amountTransferred)
        THEN fail(Err("Insufficient payment", "", amountTransferred,
                      PRICE_PER_REQUEST_LAMPORTS))
        ELSE IF AmountMismatch(amountTransferred, payload.amount)
        THEN fail(Err("Payment amount mismatch", "", 0, 0))
        ELSE [success |-> TRUE, error |-> NoError]

\* ------------------------------------------------------------------------
\* The payment cache (middleware.ts:21): a map from signature to PaymentProof
\* ------------------------------------------------------------------------

\* paymentCache.has(signature), middleware.ts:114
CacheHas(cache, signature) == signature \in DOMAIN cache

CacheSet(cache, signature, proof) ==
    [x \in DOMAIN cache \cup {signature} |->
        IF x = signature THEN proof ELSE cache[x]]

CacheDelete(cache, signature) ==
    [x \in DOMAIN cache \ {signature} |-> cache[x]]

\* a variant without the expiry check
IsExpired_Never(t, timestamp) == FALSE

\* a variant that expires the entry at the last instant of the window
IsExpired_AtBoundary(t, timestamp) == t - timestamp >= ACCESS_WINDOW_MS

\* middleware.ts:55
IsExpired(t, timestamp) == t - timestamp > ACCESS_WINDOW_MS

\* middleware.ts:212
SweepExpired(t, timestamp) == t - timestamp > ACCESS_WINDOW_MS

\* middleware.ts:61-66
NewProof(payload, t) ==
    [signature |-> payload.signature, amount |-> parseInt(payload.amount),
     timestamp |-> t, requestCount |-> 1]

\* a variant that counts a reuse twice
CountRequest_Twice(proof) == [proof EXCEPT !.requestCount = @ + 2]

\* a variant that loses the update
CountRequest_Lost(proof) == proof

\* middleware.ts:59
CountRequest(proof) == [proof EXCEPT !.requestCount = @ + 1]

\* ------------------------------------------------------------------------
\* What the middleware does with a request: next() or one response
\* ------------------------------------------------------------------------

\* what the middleware did with one request: the request (its header), the
\* ledger lookups made for it, the cache as it was before the request ended,
\* and the response sent (kind "next": no response, next() was called).
\* path is the path of the route the request was sent to where the handler
\* read its options, "" where it did not.
Outcome(path, header, lookups, before, response) ==
    [path |-> path, header |-> header, lookups |-> lookups, before |-> before,
     response |-> response]

\* x402Version is 0 where no body is sent
Response(kind, status, x402Version, error, details, accepts, receipt) ==
    [kind |-> kind, status |-> status, x402Version |-> x402Version, error |-> error,
     details |-> details, accepts |-> accepts, receipt |-> receipt]

\* a variant that lists the amount required in thousands of lamports
send402Response_OtherUnit(resource, price) ==
    Response("challenge", 402, 1, Err("Payment Required", "", 0, 0), "",
             << [scheme |-> "exact", network |-> "solana-mainnet",
                 maxAmountRequired |-> NumberToString(PRICE_PER_REQUEST_LAMPORTS \div 1000),
                 resource |-> resource, payTo |-> PAYMENT_WALLET, asset |-> "SOL",
                 maxTimeoutSeconds |-> 300,
                 metadata |-> [priceUSD |-> price, cacheExpirySeconds |-> 3600]] >>,
             <<>>)

\* middleware.ts:167-194
send402Response(resource, price) ==
    Response("challenge", 402, 1, Err("Payment Required", "", 0, 0), "",
             << [scheme |-> "exact", network |-> "solana-mainnet",
                 maxAmountRequired |-> NumberToString(PRICE_PER_REQUEST_LAMPORTS),
                 resource |-> resource, payTo |-> PAYMENT_WALLET, asset |-> "SOL",
                 maxTimeoutSeconds |-> 300,
                 metadata |-> [priceUSD |-> price, cacheExpirySeconds |-> 3600]] >>,
             <<>>)

\* middleware.ts:196-207
sendX402Error(error, code) ==
    Response("error", code, 1, error,
             IF code = 402 THEN "Payment required to access this resource" ELSE "",
             <<>>, <<>>)

\* middleware.ts:69-79
PaymentResponse(payload, t) ==
    [txHash |-> payload.signature, networkId |-> "solana-mainnet", success |-> TRUE,
     amount |-> payload.amount, timestamp |-> t,
     resourceAccess |-> [expiresAt |-> t + ACCESS_WINDOW_MS, requestsRemaining |-> -1]]

\* middleware.ts:81-83: the receipt header is set and next() is called
CallNext(payload, t) ==
    Response("next", 0, 0, NoError, "", <<>>, <<PaymentResponse(payload, t)>>)

\* x || d on an error message
MessageOr(error, d) == [error EXCEPT !.message = OrElse(@, d)]

\* a variant that records the proof before looking at the verification result
CacheAfterReject_Writes(cache, payload, t) ==
    CacheSet(cache, payload.signature, NewProof(payload, t))

\* middleware.ts:49-51: a failed verification returns before the cache is touched
CacheAfterReject(cache, payload, t) == cache

\* ------------------------------------------------------------------------
\* State
\* ------------------------------------------------------------------------

VARIABLES
    paymentCache,   \* middleware.ts:21
    now,            \* Date.now()
    advances,       \* how often the clock has moved
    inflight,       \* the bag of requests suspended at an await
    last,           \* what the middleware just did with a request, until delivered
    verifiedOK,     \* history: signatures whose ledger verification succeeded
    firstAccepted,  \* history: when next() was first called for each signature
                    \* it was ever called for
    admissions      \* history: for each cached signature, how often next() was
                    \* called for it since its entry was created

\* the state of the data service
VARIABLES
    DATA_SOURCES,   \* data-service.ts:23-32, the array of sources
    responseCache,  \* data-service.ts:39, this.cache
    clock,          \* Date.now() as the data service reads it
    ticks,          \* how often that clock has moved
    calls,          \* the bag of fetchExploits calls suspended at the await
    done,           \* how a fetchExploits call just ended, until collected
    fetches,        \* how many fetchExploits calls there have been
    breakerLog      \* history: failures in a row and opening times of the breakers

\* the state of the rate limiter
VARIABLES
    rateLimitStore, \* validation/middleware.ts:55
    wallClock,      \* Date.now() as the rate limiter reads it
    wallTicks,      \* how often that clock has moved
    decision,       \* what the rate limiter just did with a request, until handled
    unpurged,       \* history: the store as it would be had no purge ever run
    watch           \* history: the requests of one client passed on since one
                    \* of them

\* the state of the approval audit
VARIABLES
    audit           \* what handleApprovalAudit just computed, until responded

\* the payment cache without its timer
VARIABLES
    lazyCache,      \* history: paymentCache as it would be had no sweep ever run
    compared        \* what the middleware just did with a request, with and
                    \* without the sweeps, until delivered

serviceVars ==
    <<DATA_SOURCES, responseCache, clock, ticks, calls, done, fetches, breakerLog>>

paymentVars ==
    <<paymentCache, now, advances, inflight, last, verifiedOK, firstAccepted, admissions>>

limiterVars == <<rateLimitStore, wallClock, wallTicks, decision, unpurged, watch>>

auditVars == <<audit>>

sweepVars == <<lazyCache, compared>>

vars == <<paymentVars, serviceVars, limiterVars, auditVars, sweepVars>>

\* what an action of the payment middleware leaves alone
besidePayment == <<serviceVars, limiterVars, auditVars, sweepVars>>

\* what an action of the data service leaves alone
besideService == <<paymentVars, limiterVars, auditVars, sweepVars>>

\* data-service.ts:4-11
DataSource(name, priority, healthy, failures, lastCheck) ==
    [name |-> name, priority |-> priority, healthy |-> healthy, failures |-> failures,
     lastCheck |-> lastCheck]

\* data-service.ts:23-32: the array as the module defines it, loaded at time 0
KamiyoPrimary == <<DataSource("kamiyo_primary", 1, TRUE, 0, 0)>>

\* a fetchExploits call that has ended: how (kind "none": no call has just
\* ended; "hit": served from the response cache; "data": served by a source;
\* "error": it threw; "cleared": it was a clearCache call that returned), for which query, the sources it attempted in the order
\* of the attempts (as indices into DATA_SOURCES), the order it had sorted
\* them in, the sources it passed over, what its cache lookup found,
\* DATA_SOURCES as it was when the call began, the response cache as it was
\* before the call ended, whether the call never had another call in flight
\* beside it, and what it returned or threw
Ended(kind, query, attempted, order, skipped, lookup, sourcesAtStart, cacheBefore, alone, value) ==
    [kind |-> kind, query |-> query, attempted |-> attempted, order |-> order,
     skipped |-> skipped, lookup |-> lookup, sourcesAtStart |-> sourcesAtStart,
     cacheBefore |-> cacheBefore, alone |-> alone, value |-> value]

\* history only: whether cache.get(cacheKey) of line 47 found a record, and
\* how long after the record's timestamp
Lookup(found, age) == [found |-> found, age |-> age]

NoRecord == Lookup(FALSE, 0)

\* an argument that was not given; a given one is the sequence of its
\* characters
Undefined == <<"undefined">>

\* fetchExploits(protocol, chain)
Query(protocol, chain) == [protocol |-> protocol, chain |-> chain]

NoQuery == Query(Undefined, Undefined)

\* what a call returns or throws: the exploit list of a source for an
\* upstream query (source "": none), or an error message
Value(source, query, message) == [source |-> source, query |-> query, message |-> message]

NoValue == Value("", NoQuery, "")

EmptyResponseCache == [x \in {} |-> [data |-> NoValue, timestamp |-> 0]]

NoCall ==
    Ended("none", NoQuery, <<>>, <<>>, {}, NoRecord, <<>>, EmptyResponseCache, TRUE, NoValue)

\* history only: for every source the failed attempts in a row since its last
\* success or reset, and for every source whose breaker is open the time it
\* opened at
BreakerLog(streak, openedAt) == [streak |-> streak, openedAt |-> openedAt]

\* module load and new DataService() (data-service.ts:23-39, :180)
ServiceInit(sources) ==
    /\ DATA_SOURCES = sources
    /\ responseCache = EmptyResponseCache
    /\ clock = 0
    /\ ticks = 0
    /\ calls = EmptyBag
    /\ done = NoCall
    /\ fetches = 0
    /\ breakerLog =
           BreakerLog([i \in 1..Len(sources) |-> sources[i].failures], [x \in {} |-> 0])

NoPayload == Payload("", <<>>, "")

EmptyCache == [x \in {} |-> NewProof(NoPayload, 0)]

\* a request suspended at the await of verifyPayment (pc "verified": its
\* signature was found cached, middleware.ts:114-116) or at the await of
\* getTransaction inside it (pc "rpc", middleware.ts:118); paymentData is the
\* decoded header
Suspended(pc, paymentData) == [pc |-> pc, paymentData |-> paymentData]

NoOutcome ==
    Outcome("", NoHeader, 0, EmptyCache, Response("none", 0, 0, NoError, "", <<>>, <<>>))

\* middleware.ts:21
PaymentInit ==
    /\ paymentCache = EmptyCache
    /\ now = 0
    /\ advances = 0
    /\ inflight = EmptyBag
    /\ last = NoOutcome
    /\ verifiedOK = {}
    /\ firstAccepted = [x \in {} |-> 0]
    /\ admissions = [x \in {} |-> 0]

\* validation/middleware.ts:50-53
RateLimitEntry(count, resetTime) == [count |-> count, resetTime |-> resetTime]

EmptyStore == [x \in {} |-> RateLimitEntry(0, 0)]

\* what the rate limiter did with one request: the client it was counted for,
\* the time it read, the clients whose entries its purge removed, the store as
\* the request found it, whether next() was called, and the status and the
\* retryAfter of the response where one was sent (0 where none was).
\* history only: unpurgedPassed is whether next() would have been called had
\* no purge ever run.
Decision(key, at, purged, before, passed, status, retryAfter, unpurgedPassed) ==
    [key |-> key, at |-> at, purged |-> purged, before |-> before, passed |-> passed,
     status |-> status, retryAfter |-> retryAfter, unpurgedPassed |-> unpurgedPassed]

NoDecision == Decision("", 0, {}, EmptyStore, FALSE, 0, 0, FALSE)

\* history only: the requests of the client key that were passed on from the
\* time `from`, one of them at that time, and before a window's length later
Watch(key, from, passes) == [key |-> key, from |-> from, passes |-> passes]

NoWatch == Watch("", 0, 0)

\* validation/middleware.ts:55
LimiterInit ==
    /\ rateLimitStore = EmptyStore
    /\ wallClock = 0
    /\ wallTicks = 0
    /\ decision = NoDecision
    /\ unpurged = EmptyStore
    /\ watch = NoWatch

\* routes/approvals.ts:85-97, the response of an audit.
\* history only: revoked lists, for each transaction of revoke_tx_data, the
\* approval it revokes.
ApprovalAuditResponse(status, chains, approvals, risk_flags, revoke_tx_data, revoked) ==
    [status |-> status, chains |-> chains, approvals |-> approvals,
     risk_flags |-> risk_flags, revoke_tx_data |-> revoke_tx_data, revoked |-> revoked]

NoAudit == ApprovalAuditResponse(0, <<>>, <<>>, <<>>, <<>>, <<>>)

AuditInit == audit = NoAudit

\* what the middleware did with one request, and what it would have done had
\* no sweep ever run
Compared(swept, lazy) == [swept |-> swept, lazy |-> lazy]

NoComparison == Compared(NoOutcome, NoOutcome)

SweepInit ==
    /\ lazyCache = EmptyCache
    /\ compared = NoComparison

\* the modules that keep state besides the payment middleware and the data
\* service, as loaded
OthersInit == LimiterInit /\ AuditInit /\ SweepInit

Init == PaymentInit /\ ServiceInit(KamiyoPrimary) /\ OthersInit

\* history only: remember the first time next() is called for a signature
Accepted(signature) ==
    firstAccepted' =
        IF signature \in DOMAIN firstAccepted
        THEN firstAccepted
        ELSE [x \in DOMAIN firstAccepted \cup {signature} |->
                 IF x = signature THEN now ELSE firstAccepted[x]]

\* history only: the admissions counted for the entries the cache holds after
\* a step; entries that are new start at zero, removed ones are forgotten
AdmissionsFor(cache) ==
    [x \in DOMAIN cache |-> IF x \in DOMAIN admissions THEN admissions[x] ELSE 0]

\* history only: next() is called for a signature
Admit(signature) ==
    admissions' = [AdmissionsFor(paymentCache') EXCEPT ![signature] = @ + 1]

\* middleware.ts:53-83: the handler after verifyPayment reported success.
\* options.resource is read only where a challenge is built, so the route the
\* request was sent to is drawn there and not carried by the suspended request.
Granted(paymentData, lookups) ==
    LET payload == paymentData.payload
        signature == payload.signature
        answer(path, r) == last' = Outcome(path, paymentData, lookups, paymentCache, r)
    IN  IF CacheHas(paymentCache, signature)
        THEN IF IsExpired(now, paymentCache[signature].timestamp)
             THEN /\ paymentCache' = CacheDelete(paymentCache, signature)
                  /\ \E route \in Routes :
                         answer(route.path, send402Response(route.resource, route.price))
                  /\ UNCHANGED firstAccepted
                  /\ admissions' = AdmissionsFor(paymentCache')
             ELSE /\ paymentCache' =
                        [paymentCache EXCEPT ![signature] = CountRequest(@)]
                  /\ answer("", CallNext(payload, now))
                  /\ Accepted(signature)
                  /\ Admit(signature)
        ELSE /\ paymentCache' = CacheSet(paymentCache, signature, NewProof(payload, now))
             /\ answer("", CallNext(payload, now))
             /\ Accepted(signature)
             /\ Admit(signature)

\* a variant without the return of line 51: the error is sent and the handler
\* goes on to set the receipt header and call next()
Rejected_FallsThrough(paymentData, error, lookups) ==
    /\ paymentCache' = CacheAfterReject(paymentCache, paymentData.payload, now)
    /\ last' = Outcome("", paymentData, lookups, paymentCache,
                       Response("next", 402, 1, MessageOr(error, "Payment verification failed"),
                                "Payment required to access this resource", <<>>,
                                <<PaymentResponse(paymentData.payload, now)>>))
    /\ admissions' = AdmissionsFor(paymentCache')
    /\ UNCHANGED firstAccepted

\* middleware.ts:49-51
Rejected(paymentData, error, lookups) ==
    /\ paymentCache' = CacheAfterReject(paymentCache, paymentData.payload, now)
    /\ last' = Outcome("", paymentData, lookups, paymentCache,
                       sendX402Error(MessageOr(error, "Payment verification failed"), 402))
    /\ admissions' = AdmissionsFor(paymentCache')
    /\ UNCHANGED firstAccepted

\* middleware.ts:29-47 and verifyPayment up to its await (110-121): a request
\* arrives; it is answered at once, or suspended at the await of verifyPayment
\* (its signature is cached) or at the ledger lookup inside it.
Start(header) ==
    /\ last = NoOutcome
    /\ BagCardinality(inflight) < MaxInFlight
    /\ CacheHas(paymentCache, header.payload.signature)
          => paymentCache[header.payload.signature].requestCount < MaxCount
    /\ LET decoded == decodeX402Payment(header)
           answer(path, r) ==
               /\ last' = Outcome(path, header, 0, paymentCache, r)
               /\ UNCHANGED inflight
           suspend(pc) ==
               /\ inflight' = inflight (+) SetToBag({Suspended(pc, header)})
               /\ last' = NoOutcome
       IN  IF header.kind = "absent"
           THEN \E route \in Routes :
                    answer(route.path, send402Response(route.resource, route.price))
           ELSE IF ~decoded.ok
           THEN answer("", sendX402Error(
                    Err("Failed to decode x402 payment: ", decoded.message, 0, 0), 400))
           ELSE IF header.x402Version # 1
           THEN answer("", sendX402Error(Err("Unsupported x402 version", "", 0, 0), 400))
           ELSE IF header.network # "solana-mainnet"
           THEN answer("", sendX402Error(Err("Unsupported network", "", 0, 0), 400))
           ELSE IF CacheHas(paymentCache, header.payload.signature)
           THEN suspend("verified")
           ELSE suspend("rpc")
    /\ UNCHANGED <<paymentCache, now, advances, verifiedOK, firstAccepted, admissions>>
    /\ UNCHANGED besidePayment

\* the request r leaves the bag of suspended requests
Finish(r) == inflight' = inflight (-) SetToBag({r})

\* middleware.ts:47-83 for a request whose signature verifyPayment found cached
Resume(r) ==
    /\ last = NoOutcome
    /\ BagIn(r, inflight)
    /\ r.pc = "verified"
    /\ Granted(r.paymentData, 0)
    /\ Finish(r)
    /\ UNCHANGED <<now, advances, verifiedOK>>
    /\ UNCHANGED besidePayment

\* middleware.ts:118-157 and 47-83: getTransaction returns and the request ends
RpcReturns(r) ==
    /\ last = NoOutcome
    /\ BagIn(r, inflight)
    /\ r.pc = "rpc"
    /\ LET payload == r.paymentData.payload
           verification == VerifyTransaction(payload, getTransaction(payload.signature))
       IN  IF verification.success
           THEN /\ Granted(r.paymentData, 1)
                /\ verifiedOK' = verifiedOK \cup {payload.signature}
           ELSE /\ Rejected(r.paymentData, verification.error, 1)
                /\ UNCHANGED verifiedOK
    /\ Finish(r)
    /\ UNCHANGED <<now, advances>>
    /\ UNCHANGED besidePayment

\* middleware.ts:158-164 and 49-51: getTransaction throws
RpcThrows(r, message) ==
    /\ last = NoOutcome
    /\ BagIn(r, inflight)
    /\ r.pc = "rpc"
    /\ Rejected(r.paymentData,
                Err(OrElse(message, "Payment verification failed"), "", 0, 0), 1)
    /\ Finish(r)
    /\ UNCHANGED <<now, advances, verifiedOK>>
    /\ UNCHANGED besidePayment

\* middleware.ts:209-218: the sweep the interval timer runs
cleanExpiredPayments ==
    /\ last = NoOutcome
    /\ paymentCache' =
           [x \in {y \in DOMAIN paymentCache :
                      ~SweepExpired(now, paymentCache[y].timestamp)} |-> paymentCache[x]]
    /\ admissions' = AdmissionsFor(paymentCache')
    /\ UNCHANGED <<now, advances, inflight, last, verifiedOK, firstAccepted>>
    /\ UNCHANGED besidePayment

\* time passes
Tick(d) ==
    /\ last = NoOutcome
    /\ advances < MaxAdvances
    /\ now' = now + d
    /\ advances' = advances + 1
    /\ UNCHANGED <<paymentCache, inflight, last, verifiedOK, firstAccepted, admissions>>
    /\ UNCHANGED besidePayment

\* the response is on its way to the client, or the gated handler has taken
\* over: the middleware is done with that request
Deliver ==
    /\ last # NoOutcome
    /\ last' = NoOutcome
    /\ UNCHANGED <<paymentCache, now, advances, inflight, verifiedOK, firstAccepted,
                   admissions>>
    /\ UNCHANGED besidePayment

Requests == {Suspended(pc, h) : pc \in {"verified", "rpc"}, h \in WellFormedHeaders}

Next ==
    \/ \E header \in Headers : Start(header)
    \/ \E r \in Requests : Resume(r)
    \/ \E r \in Requests : RpcReturns(r)
    \/ \E r \in Requests, message \in RpcErrorMessages : RpcThrows(r, message)
    \/ cleanExpiredPayments
    \/ \E d \in AdvanceSteps : Tick(d)
    \/ Deliver

Spec == Init /\ [][Next]_vars

\* ------------------------------------------------------------------------
\* Properties.  While last # NoOutcome only Deliver is enabled, so a state
\* with an outcome is exactly the state in which the middleware has just
\* ended that request: paymentCache is the cache after it, last.before the
\* cache before it, now the time of its Date.now() calls.
\* ------------------------------------------------------------------------

Answered == last # NoOutcome

\* next() was called for the request
Admitted == last.response.kind = "next"

\* the request passed decoding and the version and network checks, so
\* verifyPayment was called for it
ReachedVerification == last.header \in WellFormedHeaders

LastPayload == last.header.payload

LastSig == last.header.payload.signature

Receipt == last.response.receipt[1]

\* the request ended because getTransaction threw
RpcFailed == Answered /\ last.response.error.message \in RpcErrorMessages

\* what the ledger transaction of a signature credits to the configured wallet
\* (0 when the wallet is no account of it)
CreditedToWallet(signature) ==
    LET tx == getTransaction(signature)
        at == {i \in 1..Len(tx.keys) : tx.keys[i] = PAYMENT_WALLET}
    IN  IF at = {} THEN 0
        ELSE LET i == CHOOSE j \in at : TRUE
             IN  tx.postBalances[i] - tx.preBalances[i]

OnLedger(signature) == getTransaction(signature).found

\* the entry the request found in the cache had outlived the access window
FoundExpired ==
    /\ LastSig \in DOMAIN last.before
    /\ now - last.before[LastSig].timestamp > ACCESS_WINDOW_MS

\* the entry the request found in the cache was within the access window,
\* its last instant included
FoundLive ==
    /\ LastSig \in DOMAIN last.before
    /\ now - last.before[LastSig].timestamp <= ACCESS_WINDOW_MS

\* C1: a signature first accepted at t0 is never admitted at a time after
\* t0 + ACCESS_WINDOW_MS, whether its entry is still cached or was evicted.
C1_NoAdmissionAfterWindow ==
    Admitted => now <= firstAccepted[LastSig] + ACCESS_WINDOW_MS

\* the proof names the wallet, its transaction is on the ledger and credits
\* the wallet at least the price, and the amount it claims is a number within
\* the tolerance of what was credited
ValidProof(payload) ==
    LET credited == CreditedToWallet(payload.signature)
        claimed == parseInt(payload.amount)
    IN  /\ payload.recipient = PAYMENT_WALLET
        /\ OnLedger(payload.signature)
        /\ credited >= PRICE_PER_REQUEST_LAMPORTS
        /\ ~claimed.nan
        /\ claimed.val - credited <= AMOUNT_TOLERANCE
        /\ credited - claimed.val <= AMOUNT_TOLERANCE

\* C2, the states: a request skips the ledger only for a signature that was
\* accepted before; a valid proof that was looked up on the ledger and found
\* no entry is admitted and leaves an entry with requestCount 1; a request
\* that made no lookup and found a live entry is admitted and leaves the entry
\* as it was but for requestCount, which is one more.
C2_State ==
    /\ \A r \in BagToSet(inflight) :
           r.pc = "verified" => r.paymentData.payload.signature \in DOMAIN firstAccepted
    /\ (/\ Answered /\ ReachedVerification /\ ValidProof(LastPayload)
        /\ LastSig \notin DOMAIN last.before /\ last.lookups = 1 /\ ~RpcFailed)
       => /\ Admitted
          /\ DOMAIN paymentCache = DOMAIN last.before \cup {LastSig}
          /\ paymentCache[LastSig].requestCount = 1
    /\ (Answered /\ ReachedVerification /\ FoundLive /\ last.lookups = 0)
       => /\ Admitted
          /\ paymentCache =
               [last.before EXCEPT ![LastSig].requestCount = @ + 1]

\* C2, the steps: a request that arrives is sent to the ledger exactly if its
\* signature has no cache entry, and a request that ends has made one ledger
\* lookup if it was sent to the ledger and none if it was not.
C2_Step ==
    \A r \in Requests :
        /\ inflight' = inflight (+) SetToBag({r})
           => (r.pc = "verified" <=> r.paymentData.payload.signature \in DOMAIN paymentCache)
        /\ (BagIn(r, inflight) /\ inflight' = inflight (-) SetToBag({r}))
           => last'.lookups = IF r.pc = "rpc" THEN 1 ELSE 0

\* C2: the first request with a valid, never-seen proof makes exactly one
\* ledger lookup and creates the entry with requestCount 1; every later
\* request with that signature while the entry is live makes no ledger lookup,
\* is admitted and increments requestCount by exactly 1.
C2_LookupsAndCount == []C2_State /\ [][C2_Step]_vars

\* C2: a request was admitted from the cache without a ledger lookup and the
\* entry now counts two requests
C2_Witness ==
    /\ Admitted /\ last.lookups = 0 /\ FoundLive
    /\ last.before[LastSig].requestCount = 1
    /\ paymentCache[LastSig].requestCount = 2

\* no entry of the cache was created or changed by the request
NothingWritten ==
    \A x \in DOMAIN paymentCache :
        x \in DOMAIN last.before /\ paymentCache[x] = last.before[x]

\* C3: a proof whose recipient is not the configured wallet is rejected in
\* every state of the cache, also when its signature is cached, and no cache
\* entry is created or updated.
C3_WrongRecipientRejected ==
    (Answered /\ ReachedVerification /\ LastPayload.recipient # PAYMENT_WALLET)
    => ~Admitted /\ NothingWritten

\* the ledger transaction of the proof has the wallet among its accounts and
\* credits it less than the price
UnderPaid(signature) ==
    /\ OnLedger(signature)
    /\ \E i \in 1..Len(getTransaction(signature).keys) :
           getTransaction(signature).keys[i] = PAYMENT_WALLET
    /\ CreditedToWallet(signature) < PRICE_PER_REQUEST_LAMPORTS

\* C4: a proof naming the wallet whose ledger transaction credits the wallet
\* less than the price is never admitted, and whenever the ledger answers it
\* is rejected with the insufficient-payment error, which carries the amount
\* credited and the price, whatever amount the proof claims: the claimed
\* amount is not looked at before.
C4_InsufficientFirst ==
    (/\ Answered /\ ReachedVerification
     /\ LastPayload.recipient = PAYMENT_WALLET /\ UnderPaid(LastSig))
    => /\ ~Admitted
       /\ NothingWritten
       /\ last.lookups = 1
       /\ \/ RpcFailed
          \/ /\ last.response.kind = "error"
             /\ last.response.status = 402
             /\ last.response.error =
                  Err("Insufficient payment", "", CreditedToWallet(LastSig),
                      PRICE_PER_REQUEST_LAMPORTS)

\* C4: an underpaid proof claiming twice the price was rejected as insufficient
C4_Witness ==
    /\ Answered /\ ReachedVerification /\ UnderPaid(LastSig)
    /\ parseInt(LastPayload.amount) = Num(2 * PRICE_PER_REQUEST_LAMPORTS)
    /\ last.response.error.message = "Insufficient payment"

\* C5: a verification on the ledger succeeds only if the claimed amount is a
\* number within the tolerance of the amount credited; a claimed number
\* further away is rejected as an amount mismatch and writes no cache entry.
C5_ToleranceGate ==
    (Answered /\ ReachedVerification /\ last.lookups = 1)
    => LET credited == CreditedToWallet(LastSig)
           claimed == parseInt(LastPayload.amount)
       IN  /\ Admitted => ValidProof(LastPayload)
           /\ (/\ ~RpcFailed /\ LastPayload.recipient = PAYMENT_WALLET
               /\ OnLedger(LastSig) /\ credited >= PRICE_PER_REQUEST_LAMPORTS
               /\ ~claimed.nan /\ ~ValidProof(LastPayload))
              => /\ last.response.error.message = "Payment amount mismatch"
                 /\ NothingWritten

\* verifyPayment reported a failure for the request
VerificationFailed == Answered /\ ReachedVerification /\ last.response.kind = "error"

\* C6: the cache holds an entry only for a signature whose ledger
\* verification succeeded at least once; a failed verification leaves the
\* cache as it was and is never answered without a ledger lookup, and a
\* request skips the lookup only for a signature verified successfully before,
\* so every retry of a failed proof is looked up again.
C6_CacheOnlyVerified ==
    /\ DOMAIN paymentCache \subseteq verifiedOK
    /\ VerificationFailed => paymentCache = last.before /\ last.lookups = 1
    /\ \A r \in BagToSet(inflight) :
           r.pc = "verified" => r.paymentData.payload.signature \in verifiedOK
    /\ (Answered /\ ReachedVerification /\ last.lookups = 0) => LastSig \in verifiedOK

\* C6: a verification failed on the amount, after a ledger lookup, and the
\* signature has no entry
C6_Witness ==
    /\ VerificationFailed
    /\ last.response.error.message = "Payment amount mismatch"
    /\ last.lookups = 1
    /\ LastSig \notin DOMAIN paymentCache

\* the request got the payment-required challenge and its signature's entry,
\* and nothing else, was removed from the cache
ChallengedAndEvicted ==
    /\ last.response.kind = "challenge"
    /\ last.response.status = 402
    /\ DOMAIN paymentCache = DOMAIN last.before \ {LastSig}
    /\ \A x \in DOMAIN paymentCache : paymentCache[x] = last.before[x]

ServedFromEntry ==
    /\ Admitted
    /\ paymentCache = [last.before EXCEPT ![LastSig].requestCount = @ + 1]

\* C8: with an entry created at t0, a request at time t that makes no ledger
\* lookup is served from the entry for t in [t0, t0 + W) and is not served
\* from it for t >= t0 + W, the instant t0 + W included.
C8_HalfOpenWindow ==
    (/\ Answered /\ ReachedVerification /\ last.lookups = 0
     /\ LastSig \in DOMAIN last.before)
    => IF now < last.before[LastSig].timestamp + ACCESS_WINDOW_MS
       THEN ServedFromEntry
       ELSE ~Admitted

\* C8 as the code has it: the window is closed at its end; the request is
\* served from the entry for t in [t0, t0 + W] and is not served from it for
\* t > t0 + W.
C8_ClosedWindow ==
    (/\ Answered /\ ReachedVerification /\ last.lookups = 0
     /\ LastSig \in DOMAIN last.before)
    => IF now <= last.before[LastSig].timestamp + ACCESS_WINDOW_MS
       THEN ServedFromEntry
       ELSE ~Admitted

\* C8: a request was served from the entry at the instant t0 + W
C8_Witness ==
    /\ Answered /\ ReachedVerification /\ last.lookups = 0
    /\ LastSig \in DOMAIN last.before
    /\ now = last.before[LastSig].timestamp + ACCESS_WINDOW_MS
    /\ ServedFromEntry

\* C9: every admission of a signature with a live entry increases
\* requestCount and leaves the entry's timestamp, and so its expiry, as it
\* was; the receipt of every admission gives the first-seen time plus the
\* access window as expiresAt.
C9_SameExpiry ==
    (Answered /\ Admitted)
    => /\ LastSig \in DOMAIN last.before
          => /\ paymentCache[LastSig].requestCount
                  > last.before[LastSig].requestCount
             /\ paymentCache[LastSig].timestamp = last.before[LastSig].timestamp
       /\ Receipt.resourceAccess.expiresAt
            = paymentCache[LastSig].timestamp + ACCESS_WINDOW_MS

\* C10: the receipt of every admitted request, from the ledger or from the
\* cache, has success true, the signature as txHash, and as amount the amount
\* recorded for the signature when it was verified.
C10_ReceiptOfRecord ==
    (Answered /\ Admitted)
    => /\ Receipt.success
       /\ Receipt.txHash = LastSig
       /\ parseInt(Receipt.amount) = paymentCache[LastSig].amount

\* the resource path of each route
ResourcePathOf(path) ==
    CASE path = "/approval-audit" -> "/approval-audit"
      [] path = "/exploits" -> "/exploits"
      [] path = "/risk-score/:protocol" -> "/risk-score"
      [] OTHER -> ""

\* the response lists exactly one way to pay: the wallet, the price in
\* lamports, the scheme and the network
ListsHowToPay ==
    /\ Len(last.response.accepts) = 1
    /\ last.response.accepts[1].payTo = PAYMENT_WALLET
    /\ last.response.accepts[1].maxAmountRequired = Str1000000
    /\ last.response.accepts[1].scheme = "exact"
    /\ last.response.accepts[1].network = "solana-mainnet"

\* C11: a request without the X-PAYMENT header is answered with status 402
\* and a challenge whose single accepts entry lists the wallet as payTo, the
\* price of 1,000,000 lamports as maxAmountRequired and the resource path of
\* the route the request was sent to; no ledger lookup is made or started,
\* the cache is as it was and next() is not called.
C11_NoHeaderChallenge ==
    /\ (Answered /\ last.header.kind = "absent")
       => /\ last.response.kind = "challenge"
          /\ last.response.status = 402
          /\ ListsHowToPay
          /\ last.response.accepts[1].resource = ResourcePathOf(last.path)
          /\ last.lookups = 0
          /\ paymentCache = last.before
          /\ ~Admitted
    /\ \A r \in BagToSet(inflight) : r.paymentData.kind # "absent"

\* C11: a request without the header was sent to the risk-score route while
\* the cache held an entry
C11_Witness ==
    /\ Answered /\ last.header.kind = "absent"
    /\ last.path = "/risk-score/:protocol"
    /\ last.response.accepts[1].resource = "/risk-score"
    /\ paymentCache # EmptyCache

\* C12: a request rejected because the verification of its proof failed (not
\* found, recipient, insufficient, mismatch) gets a response that lists how
\* to pay, as the challenge for a request without the header does.
C12_FailureListsHowToPay ==
    (VerificationFailed /\ ~RpcFailed) => ListsHowToPay

\* what the transaction of a signature credits to an account (0 when the
\* account is none of the transaction)
CreditedTo(signature, account) ==
    LET tx == getTransaction(signature)
        at == {i \in 1..Len(tx.keys) : tx.keys[i] = account}
    IN  IF at = {} THEN 0
        ELSE LET i == CHOOSE j \in at : TRUE
             IN  tx.postBalances[i] - tx.preBalances[i]

\* the proof a client builds for a signature from nothing but a challenge
ProofFromChallenge(challenge, signature) ==
    Header("json", challenge.x402Version, challenge.accepts[1].scheme,
           challenge.accepts[1].network, TRUE, signature,
           challenge.accepts[1].maxAmountRequired, challenge.accepts[1].payTo)

\* C13: for every route, a proof built from the fields of the route's
\* challenge, whose transaction is on the ledger and credits payTo exactly
\* maxAmountRequired, is admitted whenever the ledger answers and the
\* signature has no expired entry.
C13_ChallengeSufficient ==
    \A route \in Routes :
        LET challenge == send402Response(route.resource, route.price)
            offer == challenge.accepts[1]
        IN  (/\ Answered
             /\ last.header = ProofFromChallenge(challenge, LastSig)
             /\ OnLedger(LastSig)
             /\ parseInt(offer.maxAmountRequired) = Num(CreditedTo(LastSig, offer.payTo))
             /\ ~RpcFailed
             /\ ~FoundExpired)
            => Admitted

\* C13: a proof built from the challenge of the exploits route was verified
\* on the ledger and admitted
C13_Witness ==
    /\ Answered /\ Admitted /\ last.lookups = 1
    /\ last.header =
         ProofFromChallenge(send402Response("/exploits", PRICE_PER_REQUEST_SOL), "sigPaid")

\* C14: when getTransaction throws, the response differs from the response
\* to every invalid payment in more than the text of the error, and nothing
\* is cached.
C14_UnavailableIsDistinct ==
    RpcFailed
    => /\ \A p \in Payloads :
              LET v == VerifyTransaction(p, getTransaction(p.signature))
              IN  ~v.success
                  => [last.response EXCEPT !.error = NoError]
                       # [sendX402Error(v.error, 402) EXCEPT !.error = NoError]
       /\ NothingWritten

\* the header does not decode, lacks a required field, or names another
\* version or network than the supported ones
Unacceptable(h) ==
    \/ h.kind = "garbage"
    \/ /\ h.kind = "json"
       /\ \/ h.x402Version # 1
          \/ h.scheme = ""
          \/ h.network # "solana-mainnet"
          \/ ~h.hasPayload
          \/ h.payload.signature = ""
          \/ h.payload.amount = <<>>
          \/ h.payload.recipient = ""

\* C15: a header that does not decode, lacks a required field or names
\* another version or network is answered with a 4xx error; no ledger lookup
\* is made or started for it, the cache is as it was, also when the signature
\* is cached, and next() is not called.
C15_UnacceptableRejected ==
    /\ (Answered /\ Unacceptable(last.header))
       => /\ last.response.kind = "error"
          /\ last.response.status \in 400..499
          /\ last.lookups = 0
          /\ paymentCache = last.before
          /\ ~Admitted
    /\ \A r \in BagToSet(inflight) : ~Unacceptable(r.paymentData)

\* C15: a header of version 2 whose signature is cached was rejected
C15_Witness ==
    /\ Answered /\ last.header.kind = "json" /\ last.header.x402Version = 2
    /\ LastSig \in DOMAIN paymentCache
    /\ last.response.status = 400

\* C16: a proof whose scheme is not 'exact' is never admitted.
C16_SchemeIsExact ==
    (Answered /\ Admitted) => last.header.scheme = "exact"

\* C17: the requestCount of every entry is the number of requests admitted
\* for its signature since the entry was created, in every interleaving of
\* requests at the ledger and of cache hits; and every request with a valid
\* proof that was sent to the ledger is admitted when the ledger answers and
\* the signature has no expired entry, also when other requests with the same
\* signature were sent to the ledger with it.
C17_CountIsAdmissions ==
    /\ DOMAIN admissions = DOMAIN paymentCache
    /\ \A x \in DOMAIN paymentCache : paymentCache[x].requestCount = admissions[x]
    /\ (/\ Answered /\ ReachedVerification /\ ValidProof(LastPayload)
        /\ last.lookups = 1 /\ ~RpcFailed /\ ~FoundExpired)
       => Admitted

\* C17: a second request that had been sent to the ledger before the entry
\* existed was admitted in the same millisecond as the first, and the entry
\* counts two
C17_Witness ==
    /\ Answered /\ Admitted /\ last.lookups = 1
    /\ LastSig \in DOMAIN last.before
    /\ last.before[LastSig].requestCount = 1
    /\ last.before[LastSig].timestamp = now
    /\ paymentCache[LastSig].requestCount = 2
    /\ admissions[LastSig] = 2

\* ------------------------------------------------------------------------
\* The data service (src/src/services/data-service.ts)
\* ------------------------------------------------------------------------

\* data-service.ts:34
CIRCUIT_BREAKER_THRESHOLD == 5

\* data-service.ts:35
CIRCUIT_BREAKER_TIMEOUT == 60000

\* data-service.ts:40
CACHE_TTL == 300000

\* data-service.ts:36, the time after which axios gives up a request
REQUEST_TIMEOUT == 10000

\* fetchExploits calls in flight at once
MaxCalls == 2

\* fetchExploits calls in one behaviour
MaxFetches == 3

\* advances of the data service's clock in one behaviour
MaxTicks == 2

\* that clock moves by a millisecond or by a breaker timeout
ServiceSteps == {1, CIRCUIT_BREAKER_TIMEOUT}

\* failure counts a healthy source starts a behaviour with: none, and one
\* below the threshold
StartFailures == {0, CIRCUIT_BREAKER_THRESHOLD - 1}

\* two sources, A of priority 1 and B of priority 2
SourceA(failures) == DataSource("A", 1, TRUE, failures, 0)

SourceB(failures) == DataSource("B", 2, TRUE, failures, 0)

\* the DATA_SOURCES arrays behaviours start from: the one of the module, and
\* the two sources in either order, each source with failures behind it or
\* none
Configurations ==
    { <<DataSource("kamiyo_primary", 1, TRUE, f, 0)>> : f \in StartFailures }
    \cup { <<SourceA(f), SourceB(g)>> : f \in StartFailures, g \in StartFailures }
    \cup { <<SourceB(g), SourceA(f)>> : f \in StartFailures, g \in StartFailures }

StrAll == <<"a", "l", "l">>

StrExploits == <<"e", "x", "p", "l", "o", "i", "t", "s">>

\* the queries made
Queries == {NoQuery}

\* whether `if (text)` passes: the argument was given and is not ''
Truthy(text) == text # Undefined /\ text # <<>>

\* data-service.ts:46: `exploits:${protocol || 'all'}:${chain || 'all'}`
CacheKey(query) ==
    StrExploits \o <<":">> \o (IF Truthy(query.protocol) THEN query.protocol ELSE StrAll)
        \o <<":">> \o (IF Truthy(query.chain) THEN query.chain ELSE StrAll)

\* data-service.ts:98-99: the protocol and chain parameters of the request
\* sent upstream
UpstreamParams(query) ==
    Query(IF Truthy(query.protocol) THEN query.protocol ELSE Undefined,
          IF Truthy(query.chain) THEN query.chain ELSE Undefined)

\* a freshness test no record passes
IsFresh_Never(t, timestamp) == FALSE

\* data-service.ts:49
IsFresh(t, timestamp) == t - timestamp < CACHE_TTL

\* a comparator that looks at the priority alone
CompareSources_PriorityOnly(a, b) == a.priority - b.priority

\* the comparator of data-service.ts:120-124
CompareSources(a, b) ==
    IF a.healthy /\ ~b.healthy THEN -1
    ELSE IF ~a.healthy /\ b.healthy THEN 1
    ELSE a.priority - b.priority

\* Array.prototype.sort is stable: an element goes before the first one that
\* compares greater
RECURSIVE InsertSorted(_, _, _)
InsertSorted(sorted, i, sources) ==
    IF sorted = <<>> THEN <<i>>
    ELSE IF CompareSources(sources[Head(sorted)], sources[i]) <= 0
    THEN <<Head(sorted)>> \o InsertSorted(Tail(sorted), i, sources)
    ELSE <<i>> \o sorted

RECURSIVE SortFirst(_, _)
SortFirst(sources, n) ==
    IF n = 0 THEN <<>> ELSE InsertSorted(SortFirst(sources, n - 1), n, sources)

\* data-service.ts:119-125; the sorted copy holds the same objects, so it is
\* given as the indices into DATA_SOURCES
getSortedSources(sources) == SortFirst(sources, Len(sources))

\* a check that lets every source through
isSourceHealthy_Always(source, t) == [ok |-> TRUE, source |-> source]

\* data-service.ts:127-139: whether the source may be attempted, and the
\* source as the call leaves it
isSourceHealthy(source, t) ==
    IF source.healthy THEN [ok |-> TRUE, source |-> source]
    ELSE IF t - source.lastCheck > CIRCUIT_BREAKER_TIMEOUT
    THEN [ok |-> TRUE, source |-> [source EXCEPT !.healthy = TRUE, !.failures = 0]]
    ELSE [ok |-> FALSE, source |-> source]

\* a failure handler that does not count the failure
handleSourceFailure_Uncounted(source, t) == [source EXCEPT !.lastCheck = t]

\* data-service.ts:141-157
handleSourceFailure(source, t) ==
    LET counted == [source EXCEPT !.failures = @ + 1, !.lastCheck = t]
    IN  IF counted.failures >= CIRCUIT_BREAKER_THRESHOLD
        THEN [counted EXCEPT !.healthy = FALSE]
        ELSE counted

\* a success that leaves the failure count as it is
MarkHealthy_KeepsCount(source, t) == [source EXCEPT !.healthy = TRUE, !.lastCheck = t]

\* data-service.ts:64-66
MarkHealthy(source, t) ==
    [source EXCEPT !.healthy = TRUE, !.failures = 0, !.lastCheck = t]

\* a success that marks every source
OnSuccess_MarksAll(sources, i, t) == [j \in 1..Len(sources) |-> MarkHealthy(sources[j], t)]

\* data-service.ts:64-66: what the success of source i does to the sources
OnSuccess(sources, i, t) == [sources EXCEPT ![i] = MarkHealthy(@, t)]

\* history only: the attempt on source i failed at time t; before and after
\* are the source before and after handleSourceFailure
LogFailure(log, i, before, after, t) ==
    BreakerLog([log.streak EXCEPT ![i] = @ + 1],
               IF before.healthy /\ ~after.healthy
               THEN [j \in DOMAIN log.openedAt \cup {i} |->
                        IF j = i THEN t ELSE log.openedAt[j]]
               ELSE log.openedAt)

\* history only: source i succeeded
LogSuccess(log, i) ==
    BreakerLog([log.streak EXCEPT ![i] = 0],
               [j \in DOMAIN log.openedAt \ {i} |-> log.openedAt[j]])

\* history only: isSourceHealthy has reset the sources that were unhealthy
\* before and are healthy after
LogResets(log, before, after) ==
    LET reset == {j \in 1..Len(before) : ~before[j].healthy /\ after[j].healthy}
    IN  BreakerLog([j \in DOMAIN log.streak |-> IF j \in reset THEN 0 ELSE log.streak[j]],
                   [j \in DOMAIN log.openedAt \ reset |-> log.openedAt[j]])

\* what fetchFromSource throws: an axios error, or the error of line 113
FetchErrors == {"timeout of 10000ms exceeded", "Invalid response format from data source"}

\* a fetchExploits call suspended at the await of line 61, on the source at
\* position pos of its sorted order
Call(query, order, pos, attempted, skipped, lookup, sourcesAtStart, alone) ==
    [query |-> query, order |-> order, pos |-> pos, attempted |-> attempted,
     skipped |-> skipped, lookup |-> lookup, sourcesAtStart |-> sourcesAtStart,
     alone |-> alone]

\* history only: the call passed over a source whose breaker had been open
\* for that long
Skip(source, openFor) == [source |-> source, openFor |-> openFor]

\* history only: the call has another call in flight beside it
NotAlone(call) == [call EXCEPT !.alone = FALSE]

\* data-service.ts:54-57: the first position from `from` on whose source
\* isSourceHealthy lets through; 0 when the loop runs out
RECURSIVE NextAttempt(_, _, _, _)
NextAttempt(order, from, sources, t) ==
    IF from > Len(order) THEN 0
    ELSE IF isSourceHealthy(sources[order[from]], t).ok THEN from
    ELSE NextAttempt(order, from + 1, sources, t)

\* the call ends
EndCall(kind, call, skipped, value) ==
    done' = Ended(kind, call.query, call.attempted, call.order, skipped, call.lookup,
                  call.sourcesAtStart, responseCache, call.alone, value)

\* data-service.ts:54-61 and :86: the loop runs from position `from` to the
\* next await, or to its end, calling isSourceHealthy on every source it
\* comes to; others are the other calls in flight, sources and log the
\* sources and the history as the loop finds them
Iterate(others, call, from, sources, log) ==
    LET k == NextAttempt(call.order, from, sources, clock)
        visited == {call.order[p] : p \in from..(IF k = 0 THEN Len(call.order) ELSE k)}
        checked == [j \in 1..Len(sources) |->
                       IF j \in visited THEN isSourceHealthy(sources[j], clock).source
                       ELSE sources[j]]
        skipped == call.skipped \cup
                       { Skip(j, clock - log.openedAt[j]) :
                           j \in {v \in visited \cap DOMAIN log.openedAt :
                                     ~isSourceHealthy(sources[v], clock).ok} }
    IN  /\ DATA_SOURCES' = checked
        /\ breakerLog' = LogResets(log, sources, checked)
        /\ IF k = 0
           THEN /\ calls' = others
                /\ EndCall("error", call, skipped,
                           Value("", UpstreamParams(call.query), "All data sources unavailable"))
           ELSE /\ calls' = others (+)
                       SetToBag({[call EXCEPT !.pos = k,
                                              !.attempted = Append(@, call.order[k]),
                                              !.skipped = skipped]})
                /\ done' = NoCall

\* data-service.ts:42-61: fetchExploits is called
Fetch(query) ==
    /\ done = NoCall
    /\ BagCardinality(calls) < MaxCalls
    /\ fetches < MaxFetches
    /\ fetches' = fetches + 1
    /\ LET cacheKey == CacheKey(query)
           lookup == IF cacheKey \in DOMAIN responseCache
                     THEN Lookup(TRUE, clock - responseCache[cacheKey].timestamp)
                     ELSE NoRecord
       IN  IF /\ cacheKey \in DOMAIN responseCache
              /\ IsFresh(clock, responseCache[cacheKey].timestamp)
           THEN /\ done' = Ended("hit", query, <<>>, <<>>, {}, lookup, DATA_SOURCES,
                                 responseCache, calls = EmptyBag,
                                 responseCache[cacheKey].data)
                /\ UNCHANGED <<DATA_SOURCES, calls, breakerLog>>
           ELSE Iterate(BagOfAll(NotAlone, calls),
                        Call(query, getSortedSources(DATA_SOURCES), 0, <<>>, {}, lookup,
                             DATA_SOURCES, calls = EmptyBag),
                        1, DATA_SOURCES, breakerLog)
    /\ UNCHANGED <<responseCache, clock, ticks>>
    /\ UNCHANGED besideService

\* data-service.ts:61-72: fetchFromSource returns the exploits
FetchReturns(call) ==
    /\ done = NoCall
    /\ BagIn(call, calls)
    /\ LET i == call.order[call.pos]
           data == Value(DATA_SOURCES[i].name, UpstreamParams(call.query), "")
       IN  /\ DATA_SOURCES' = OnSuccess(DATA_SOURCES, i, clock)
           /\ breakerLog' = LogSuccess(breakerLog, i)
           /\ responseCache' =
                  [x \in DOMAIN responseCache \cup {CacheKey(call.query)} |->
                      IF x = CacheKey(call.query)
                      THEN [data |-> data, timestamp |-> clock]
                      ELSE responseCache[x]]
           /\ EndCall("data", call, call.skipped, data)
    /\ calls' = calls (-) SetToBag({call})
    /\ UNCHANGED <<clock, ticks, fetches>>
    /\ UNCHANGED besideService

\* a catch block that stores what was thrown
CacheAfterThrow_Writes(cache, key, value) ==
    [x \in DOMAIN cache \cup {key} |->
        IF x = key THEN [data |-> value, timestamp |-> clock] ELSE cache[x]]

\* data-service.ts:73-86: the response cache after the catch block and the
\* end of the loop, which do not write to it
CacheAfterThrow(cache, key, value) == cache

\* data-service.ts:73-86: fetchFromSource throws
FetchThrows(call, message) ==
    /\ done = NoCall
    /\ BagIn(call, calls)
    /\ LET i == call.order[call.pos]
           failed == [DATA_SOURCES EXCEPT ![i] = handleSourceFailure(@, clock)]
           log == LogFailure(breakerLog, i, DATA_SOURCES[i], failed[i], clock)
       IN  IF i = Len(DATA_SOURCES)
           THEN /\ DATA_SOURCES' = failed
                /\ breakerLog' = log
                /\ calls' = calls (-) SetToBag({call})
                /\ EndCall("error", call, call.skipped,
                           Value(DATA_SOURCES[i].name, UpstreamParams(call.query), message))
           ELSE Iterate(calls (-) SetToBag({call}), call, call.pos + 1, failed, log)
    /\ responseCache' =
           CacheAfterThrow(responseCache, CacheKey(call.query),
                           Value("", UpstreamParams(call.query), message))
    /\ UNCHANGED <<clock, ticks, fetches>>
    /\ UNCHANGED besideService

\* a clear that keeps the records that are still fresh
MapClear_KeepsFresh(cache) ==
    [x \in {k \in DOMAIN cache : IsFresh(clock, cache[k].timestamp)} |-> cache[x]]

\* data-service.ts:168: this.cache.clear()
MapClear(cache) == EmptyResponseCache

\* data-service.ts:167-170
clearCache ==
    /\ done = NoCall
    /\ responseCache' = MapClear(responseCache)
    /\ done' = Ended("cleared", NoQuery, <<>>, <<>>, {}, NoRecord, DATA_SOURCES, responseCache, calls = EmptyBag, NoValue)
    /\ UNCHANGED <<DATA_SOURCES, clock, ticks, calls, fetches, breakerLog>>
    /\ UNCHANGED besideService

\* time passes; a request is given up after REQUEST_TIMEOUT (data-service.ts:105),
\* so no call stays at its await for longer
ServiceTick(d) ==
    /\ done = NoCall
    /\ ticks < MaxTicks
    /\ d > REQUEST_TIMEOUT => calls = EmptyBag
    /\ clock' = clock + d
    /\ ticks' = ticks + 1
    /\ UNCHANGED <<DATA_SOURCES, responseCache, calls, done, fetches, breakerLog>>
    /\ UNCHANGED besideService

\* the caller of fetchExploits has taken what the call returned or threw
Collect ==
    /\ done # NoCall
    /\ done' = NoCall
    /\ UNCHANGED <<DATA_SOURCES, responseCache, clock, ticks, calls, fetches, breakerLog>>
    /\ UNCHANGED besideService

ServiceInit0 ==
    \E sources \in Configurations : PaymentInit /\ ServiceInit(sources) /\ OthersInit

ServiceNext ==
    \/ \E query \in Queries : Fetch(query)
    \/ \E call \in BagToSet(calls) : FetchReturns(call)
    \/ \E call \in BagToSet(calls), message \in FetchErrors : FetchThrows(call, message)
    \/ clearCache
    \/ \E d \in ServiceSteps : ServiceTick(d)
    \/ Collect

ServiceSpec == ServiceInit0 /\ [][ServiceNext]_vars

\* ------------------------------------------------------------------------
\* The response cache of the data service, with the source of the module
\* ------------------------------------------------------------------------

StrUniswap == <<"u", "n", "i">>

\* the queries made: no arguments (GET /exploits), the protocol 'all'
\* (GET /risk-score/all) and another protocol
CacheQueries == {NoQuery, Query(StrAll, Undefined), Query(StrUniswap, Undefined)}

\* the clock moves by a millisecond or by the lifetime of a record
CacheSteps == {1, CACHE_TTL}

CacheNext ==
    \/ \E query \in CacheQueries : Fetch(query)
    \/ \E call \in BagToSet(calls) : FetchReturns(call)
    \/ \E call \in BagToSet(calls), message \in FetchErrors : FetchThrows(call, message)
    \/ clearCache
    \/ \E d \in CacheSteps : ServiceTick(d)
    \/ Collect

CacheSpec == Init /\ [][CacheNext]_vars

\* every request sent upstream is answered or given up (REQUEST_TIMEOUT), and
\* the caller takes what its call returns; nothing calls clearCache or
\* fetchExploits on a schedule
CacheLiveSpec ==
    /\ CacheSpec
    /\ WF_vars(\E call \in BagToSet(calls) :
                   \/ FetchReturns(call)
                   \/ \E message \in FetchErrors : FetchThrows(call, message))
    /\ WF_vars(Collect)

\* ------------------------------------------------------------------------
\* Claims about the data service
\* ------------------------------------------------------------------------

\* the calls that missed the response cache: those at an await, and the one
\* that has just ended
MissCalls ==
    { [attempted |-> call.attempted, sourcesAtStart |-> call.sourcesAtStart] :
        call \in BagToSet(calls) }
    \cup (IF done.kind \in {"data", "error"}
          THEN {[attempted |-> done.attempted, sourcesAtStart |-> done.sourcesAtStart]}
          ELSE {})

\* the call has just ended having gone to a source, or having found none to
\* go to
EndedOnMiss == done.kind \in {"data", "error"}

\* C18: of any two sources a call attempts, the earlier one was healthy when
\* the call began if the later one was, the earlier one has the lower
\* priority number if both were equally healthy then, and the two are
\* different sources.
C18_AttemptOrder ==
    \A call \in MissCalls :
        \A p \in 1..Len(call.attempted), q \in 1..Len(call.attempted) :
            p < q =>
                LET a == call.sourcesAtStart[call.attempted[p]]
                    b == call.sourcesAtStart[call.attempted[q]]
                IN  /\ call.attempted[p] # call.attempted[q]
                    /\ b.healthy => a.healthy
                    /\ a.healthy = b.healthy => a.priority < b.priority

\* a call went to a source that was healthy when it began and then to one
\* that was not
C18_Witness ==
    /\ EndedOnMiss
    /\ Len(done.attempted) = 2
    /\ done.sourcesAtStart[done.attempted[1]].healthy
    /\ ~done.sourcesAtStart[done.attempted[2]].healthy


\* the names of the sources the call that has just ended went to, in the
\* order of its attempts
AttemptedNames == [p \in 1..Len(done.attempted) |-> DATA_SOURCES[done.attempted[p]].name]

\* the source of that name as it is now
SourceNamed(name) ==
    DATA_SOURCES[CHOOSE i \in 1..Len(DATA_SOURCES) : DATA_SOURCES[i].name = name]

\* a call has just ended that began with A and B both healthy and without
\* failures, had no other call in flight beside it, and whose fetch from A
\* failed and from B succeeded
FailedOver ==
    /\ done.kind = "data"
    /\ done.alone
    /\ Len(done.sourcesAtStart) = 2
    /\ \A i \in 1..2 :
           done.sourcesAtStart[i].healthy /\ done.sourcesAtStart[i].failures = 0
    /\ AttemptedNames = <<"A", "B">>

\* C19: when A's fetch fails and B's succeeds in a call that began with both
\* healthy and without failures, the call returns B's data, A has one failure
\* and B none, and the response cache holds B's data for the query.
C19_Failover ==
    FailedOver =>
        /\ done.value = Value("B", UpstreamParams(done.query), "")
        /\ SourceNamed("A").failures = 1
        /\ SourceNamed("B").failures = 0
        /\ CacheKey(done.query) \in DOMAIN responseCache
        /\ responseCache[CacheKey(done.query)].data = Value("B", UpstreamParams(done.query), "")

\* such a call has ended, the response cache having been empty before
C19_Witness ==
    /\ FailedOver
    /\ done.cacheBefore = EmptyResponseCache
    /\ SourceNamed("A").failures = 1

\* the source may be attempted now: it is healthy, or its breaker timeout has
\* elapsed
Attemptable(source) == isSourceHealthy(source, clock).ok

\* C20: when a call ends with an error, every source that may be attempted
\* has been attempted in that call.
C20_FailsOnlyWhenExhausted ==
    done.kind = "error" =>
        \A i \in 1..Len(DATA_SOURCES) :
            Attemptable(DATA_SOURCES[i]) => \E p \in 1..Len(done.attempted) : done.attempted[p] = i

\* the source the call that has just ended went to last
LastAttempted == DATA_SOURCES[done.attempted[Len(done.attempted)]]

\* C21: a call that ends in failure after going to at least one source throws
\* the error of the last source it went to, one of the errors fetchFromSource
\* throws.
C21_FailureCarriesLastError ==
    done.kind = "error" /\ done.attempted # <<>> =>
        /\ done.value.source = LastAttempted.name
        /\ done.value.message \in FetchErrors

\* ------------------------------------------------------------------------
\* The endpoints over the data service (src/src/index.ts)
\* ------------------------------------------------------------------------

\* the empty exploit list, []
EmptyList == NoValue

\* index.ts:61-76: what fetchKamiyoExploits returns for a fetchExploits call
\* that ended as `ended`; the catch block returns []
fetchKamiyoExploits(ended) == IF ended.kind = "error" THEN EmptyList ELSE ended.value

\* index.ts:78-156: the score is computed from the list; of an empty list it
\* is 0, the level LOW (no recent exploits, no loss, daysSinceLatest 999)
calculateRiskScore(exploits) ==
    [of |-> exploits,
     risk_level |-> IF exploits = EmptyList THEN "LOW" ELSE "from the exploits"]

\* index.ts:200-232: the answer of GET /exploits; nothing in the try block
\* throws, since fetchKamiyoExploits does not
GetExploits(ended) ==
    [status |-> 200, success |-> TRUE, exploits |-> fetchKamiyoExploits(ended)]

\* index.ts:234-275: the answer of GET /risk-score/:protocol
GetRiskScore(ended) ==
    [status |-> 200, success |-> TRUE,
     risk_score |-> calculateRiskScore(fetchKamiyoExploits(ended))]

\* C22: when fetchExploits fails, having found no live cache entry, both
\* endpoints answer with a status of the 5xx class.
C22_FailureIs5xx ==
    done.kind = "error" =>
        /\ GetExploits(done).status >= 500
        /\ GetRiskScore(done).status >= 500

\* ------------------------------------------------------------------------
\* Claims about the circuit breaker
\* ------------------------------------------------------------------------

Sources == 1..Len(DATA_SOURCES)

\* the calls in the bag that are waiting for the answer of source i
Awaiting(i, inFlight) ==
    BagCardinality([call \in {c \in BagToSet(inFlight) : c.order[c.pos] = i} |->
                       CopiesIn(call, inFlight)])

\* the breaker of source i is open and opened less than the breaker timeout
\* ago
BreakerHolds(i) ==
    /\ ~DATA_SOURCES[i].healthy
    /\ i \in DOMAIN breakerLog.openedAt
    /\ clock - breakerLog.openedAt[i] < CIRCUIT_BREAKER_TIMEOUT

\* a source is unhealthy exactly when its last five or more attempts in a
\* row failed
OpenAtThreshold ==
    \A i \in Sources :
        ~DATA_SOURCES[i].healthy <=> breakerLog.streak[i] >= CIRCUIT_BREAKER_THRESHOLD

\* no request goes to a source whose breaker holds, and a fetch that finds
\* every breaker holding fails at once with no request sent
NoRequestWhileOpen ==
    /\ \A i \in Sources : BreakerHolds(i) => Awaiting(i, calls') <= Awaiting(i, calls)
    /\ (/\ fetches' = fetches + 1
        /\ \A i \in Sources : BreakerHolds(i))
       => /\ done'.kind = "error"
          /\ done'.attempted = <<>>
          /\ calls' = calls

\* C23: a source becomes unhealthy at its fifth failure in a row and not
\* before; while it is unhealthy and the breaker timeout has not elapsed no
\* request is sent to it, and a fetch with no other source to go to fails
\* without contacting any.
C23_CircuitBreaker == []OpenAtThreshold /\ [][NoRequestWhileOpen]_vars

\* a fetch has just failed without contacting a source, having passed over
\* one whose breaker opened at its fifth failure in a row
C23_Witness ==
    /\ done.kind = "error"
    /\ done.attempted = <<>>
    /\ \E skip \in done.skipped :
           /\ ~DATA_SOURCES[skip.source].healthy
           /\ breakerLog.streak[skip.source] = CIRCUIT_BREAKER_THRESHOLD
           /\ skip.openFor < CIRCUIT_BREAKER_TIMEOUT

\* C24: in every state a source that is not healthy has at least
\* CIRCUIT_BREAKER_THRESHOLD failures, and the source a call has just fetched
\* from successfully is healthy with no failures.
C24_BreakerInvariant ==
    /\ \A i \in Sources :
           ~DATA_SOURCES[i].healthy => DATA_SOURCES[i].failures >= CIRCUIT_BREAKER_THRESHOLD
    /\ done.kind = "data" => LastAttempted.healthy /\ LastAttempted.failures = 0

\* a call that had another call in flight beside it has just fetched from a
\* source that had failures when the call began, while another source is
\* unhealthy
C24_Witness ==
    /\ done.kind = "data"
    /\ ~done.alone
    /\ done.sourcesAtStart[done.attempted[Len(done.attempted)]].failures > 0
    /\ \E i \in Sources : ~DATA_SOURCES[i].healthy

\* C25: a fetch that misses the response cache and comes to a source whose
\* breaker opened more than the breaker timeout before does not pass it over.
C25_RetryNotPostponed ==
    \A skip \in done.skipped : skip.openFor <= CIRCUIT_BREAKER_TIMEOUT

\* the sources the call that has just ended did not go to
NotAttempted == {i \in Sources : \A p \in 1..Len(done.attempted) : done.attempted[p] # i}

\* C26: a call with no other call in flight beside it that has fetched from a
\* source successfully returns that source's data, has no request left in
\* flight, and leaves every source it did not go to as it was when the call
\* began.
C26_ReturnsAtFirstSuccess ==
    done.kind = "data" /\ done.alone =>
        /\ done.value = Value(LastAttempted.name, UpstreamParams(done.query), "")
        /\ calls = EmptyBag
        /\ \A i \in NotAttempted : DATA_SOURCES[i] = done.sourcesAtStart[i]

\* such a call succeeded at the first source of its order and did not go to
\* the second one, which has failures behind it
C26_Witness ==
    /\ done.kind = "data"
    /\ done.alone
    /\ Len(done.order) = 2
    /\ done.attempted = <<done.order[1]>>
    /\ DATA_SOURCES[done.order[2]].failures > 0

\* ------------------------------------------------------------------------
\* Claims about the response cache
\* ------------------------------------------------------------------------

\* what the cache lookups of the calls that went on to the sources found:
\* those of the calls at an await, and that of the call that has just ended
MissLookups ==
    {call.lookup : call \in BagToSet(calls)}
    \cup (IF EndedOnMiss THEN {done.lookup} ELSE {})

\* C27: a call that finds a record less than CACHE_TTL old is answered from
\* the cache: it returns the record's data, goes to no source, leaves no
\* request in flight and leaves every source as it was; and no call that
\* found such a record goes on to the sources.
C27_HitIsServedFromCache ==
    /\ done.kind = "hit" =>
           /\ done.lookup.found /\ done.lookup.age < CACHE_TTL
           /\ done.value = done.cacheBefore[CacheKey(done.query)].data
           /\ done.attempted = <<>>
           /\ done.alone => calls = EmptyBag
           /\ DATA_SOURCES = done.sourcesAtStart
           /\ responseCache = done.cacheBefore
    /\ \A lookup \in MissLookups : ~(lookup.found /\ lookup.age < CACHE_TTL)

\* a call has just been answered from a record that an earlier call with the
\* same arguments stored, with nothing in flight
C27_Witness ==
    /\ done.kind = "hit"
    /\ done.alone
    /\ done.value = Value("kamiyo_primary", UpstreamParams(done.query), "")
    /\ done.lookup.age > 0

\* C28: a call answered from the cache returns data that was fetched with
\* the upstream parameters of its own query.
C28_HitIsForSameUpstreamQuery ==
    done.kind = "hit" => done.value.query = UpstreamParams(done.query)

\* C29: a lookup that finds a record at most CACHE_TTL old, the record being
\* exactly CACHE_TTL old included, is answered from the cache, and one that
\* finds an older record goes on to the sources.
C29_StaleAfterTtl ==
    /\ done.kind = "hit" => done.lookup.age <= CACHE_TTL
    /\ \A lookup \in MissLookups : ~(lookup.found /\ lookup.age <= CACHE_TTL)

CacheKeys == {CacheKey(query) : query \in CacheQueries}

\* the response cache holds a record under the key that is older than
\* CACHE_TTL
ExpiredRecord(key) ==
    /\ key \in DOMAIN responseCache
    /\ clock - responseCache[key].timestamp > CACHE_TTL

\* C30: a record of the response cache that has expired is eventually no
\* longer there, whether its key is looked up again or not.
C30_ExpiredEventuallySwept ==
    \A key \in CacheKeys : [](ExpiredRecord(key) => <>(~ExpiredRecord(key)))

\* a clearCache call has just returned
Cleared == done.kind = "cleared"

\* clearCache leaves no record in the response cache and every source as it
\* was
ClearedIsEmpty ==
    Cleared => responseCache = EmptyResponseCache /\ DATA_SOURCES = done.sourcesAtStart

\* a fetch that finds the response cache empty is not answered from it and
\* sends a request to a source, unless no source may be attempted
FetchAfterClearGoesToSource ==
    responseCache = EmptyResponseCache /\ fetches' = fetches + 1 =>
        /\ done'.kind # "hit"
        /\ \/ BagCardinality(calls') = BagCardinality(calls) + 1
           \/ \A i \in Sources : ~Attemptable(DATA_SOURCES[i])

\* C31: clearCache empties the response cache and changes no source; the
\* next fetch for any query goes to a source, whether or not a record for it
\* was still fresh when the cache was cleared.
C31_ClearCache == []ClearedIsEmpty /\ [][FetchAfterClearGoesToSource]_vars

\* clearCache has just removed a record that was still fresh
C31_Witness ==
    /\ Cleared
    /\ \E key \in DOMAIN done.cacheBefore :
           clock - done.cacheBefore[key].timestamp < CACHE_TTL

\* the sources the call that has just ended went to as an optimistic retry,
\* having had no other call in flight beside it: those that were unhealthy
\* when it began, and whose fetch failed
FailedRetries ==
    IF EndedOnMiss /\ done.alone
    THEN {done.attempted[p] : p \in
            {q \in 1..Len(done.attempted) :
                /\ ~done.sourcesAtStart[done.attempted[q]].healthy
                /\ q < Len(done.attempted) \/ done.kind = "error"}}
    ELSE {}

\* C34: a source whose optimistic retry has just failed is unhealthy again.
C34_FailedRetryReopens ==
    \A i \in FailedRetries : ~DATA_SOURCES[i].healthy

\* the record holds exploit data fetched from a source
HoldsData(record) == record.data.source # "" /\ record.data.message = ""

\* C40: a call that fails, whether a source threw or every source was
\* skipped, leaves the response cache as it was; every record of the cache
\* holds data that a source returned, and so does every answer from the
\* cache.
C40_CacheWrittenOnSuccessOnly ==
    /\ done.kind = "error" => responseCache = done.cacheBefore
    /\ \A key \in DOMAIN responseCache : HoldsData(responseCache[key])
    /\ done.kind = "hit" => done.value.source # "" /\ done.value.message = ""

\* a call has just failed while the response cache held a record, having
\* gone to a source that threw
C40_Witness ==
    /\ done.kind = "error"
    /\ done.attempted # <<>>
    /\ done.cacheBefore # EmptyResponseCache
    /\ responseCache = done.cacheBefore

\* ------------------------------------------------------------------------
\* C39
\* ------------------------------------------------------------------------

\* a response was written for the request: a status and a body
ResponseSent ==
    /\ last.response.kind \in {"challenge", "error"}
    /\ last.response.status \in {400, 402}
    /\ last.response.x402Version = 1
    /\ last.response.error # NoError

\* next() was called for the request and nothing was written but the receipt
\* header
NextOnly ==
    /\ Admitted
    /\ last.response.status = 0
    /\ last.response.x402Version = 0
    /\ last.response.error = NoError
    /\ last.response.accepts = <<>>
    /\ Len(last.response.receipt) = 1

\* verifyPayment reported success for the request: its signature had an entry
\* when verifyPayment was called, or its transaction was looked up on the
\* ledger and passed every check
VerificationSucceeded ==
    /\ ReachedVerification
    /\ IF last.lookups = 0
       THEN LastSig \in DOMAIN firstAccepted
       ELSE /\ ~RpcFailed
            /\ VerifyTransaction(LastPayload, getTransaction(LastSig)).success

\* C39: for every request the middleware produces exactly one outcome: either
\* next() is called and no response is written, or one error or challenge
\* response is written and next() is not called (it carries no receipt); and
\* next() is called only after verifyPayment reported success.
C39_ExactlyOneOutcome ==
    Answered =>
        /\ NextOnly \/ ResponseSent
        /\ ResponseSent => ~Admitted /\ last.response.receipt = <<>>
        /\ Admitted => VerificationSucceeded

\* C39: next() was called for a request whose transaction was looked up on
\* the ledger, and no response was written
C39_Witness ==
    /\ NextOnly
    /\ last.lookups = 1
    /\ VerifyTransaction(LastPayload, getTransaction(LastSig)).success

\* ------------------------------------------------------------------------
\* The rate limiter (validation/middleware.ts:50-98), mounted on every route
\* ------------------------------------------------------------------------

\* index.ts:27
RateLimitOptions == [windowMs |-> 60000, maxRequests |-> 60]

\* how often the rate limiter's clock moves
MaxWallTicks == 2

\* how many requests of the quiet client are counted in one window
MaxQuiet == 2

\* the clock moves by a millisecond or by a millisecond less than a window
LimiterSteps == {1, RateLimitOptions.windowMs - 1}

\* what a request carries of its client: req.ip and req.socket.remoteAddress,
\* "" where undefined
Client(ip, remoteAddress) == [ip |-> ip, remoteAddress |-> remoteAddress]

\* a client the server sees the address of, and one it sees no address of
Clients == {Client("203.0.113.7", "203.0.113.7"), Client("", "203.0.113.7"), Client("", "")}

\* validation/middleware.ts:62
ClientKey(req) == OrElse(OrElse(req.ip, req.remoteAddress), "unknown")

QuietKey == "unknown"

\* a variant of the purge that drops every entry
IsOver_Always(t, entry) == TRUE

\* validation/middleware.ts:67
IsOver(t, entry) == t > entry.resetTime

\* validation/middleware.ts:66-70
Purge(store, t) == [x \in {y \in DOMAIN store : ~IsOver(t, store[y])} |-> store[x]]

\* a variant that takes the window to last through its reset time
InWindow_Closed(t, entry) == t <= entry.resetTime

\* validation/middleware.ts:76
InWindow(t, entry) == t < entry.resetTime

\* a variant that lets one request more through
AtLimit_OneMore(entry, options) == entry.count > options.maxRequests

\* validation/middleware.ts:77
AtLimit(entry, options) == entry.count >= options.maxRequests

\* Math.ceil(ms / 1000) for ms >= 0
CeilSeconds(ms) == (ms + 999) \div 1000

\* rateLimitStore.set(key, entry)
StoreSet(store, key, entry) ==
    [x \in DOMAIN store \cup {key} |-> IF x = key THEN entry ELSE store[x]]

\* what the handler returns to: the store it leaves, whether next() was
\* called, and the status and the retryAfter of the response it sent
Limited(store, passed, status, retryAfter) ==
    [store |-> store, passed |-> passed, status |-> status, retryAfter |-> retryAfter]

\* validation/middleware.ts:73-96: the handler after its purge
CountRequestOf(store, key, t, options) ==
    IF key \in DOMAIN store
    THEN IF InWindow(t, store[key])
         THEN IF AtLimit(store[key], options)
              THEN Limited(store, FALSE, 429, CeilSeconds(store[key].resetTime - t))
              ELSE Limited([store EXCEPT ![key].count = @ + 1], TRUE, 0, 0)
         ELSE Limited([store EXCEPT ![key] = RateLimitEntry(1, t + options.windowMs)],
                      TRUE, 0, 0)
    ELSE Limited(StoreSet(store, key, RateLimitEntry(1, t + options.windowMs)), TRUE, 0, 0)

\* history only: a request that is passed on may open the watch, if none is
\* open; a later one of the same client, less than a window's length after
\* the watch was opened, is counted
WatchAfter(key, passed, mark) ==
    IF ~passed
    THEN watch
    ELSE IF watch = NoWatch
    THEN IF mark THEN Watch(key, wallClock, 1) ELSE watch
    ELSE IF watch.key = key /\ wallClock < watch.from + RateLimitOptions.windowMs
    THEN [watch EXCEPT !.passes = @ + 1]
    ELSE watch

\* validation/middleware.ts:61-97: one request goes through the handler;
\* purge is whether Math.random() < 0.01 (line 65)
rateLimitMiddleware(req, purge, mark) ==
    /\ decision = NoDecision
    /\ LET key == ClientKey(req)
           store == IF purge THEN Purge(rateLimitStore, wallClock) ELSE rateLimitStore
           result == CountRequestOf(store, key, wallClock, RateLimitOptions)
           shadow == CountRequestOf(unpurged, key, wallClock, RateLimitOptions)
       IN  /\ (key = QuietKey /\ key \in DOMAIN rateLimitStore)
                 => \/ rateLimitStore[key].count < MaxQuiet
                    \/ ~InWindow(wallClock, rateLimitStore[key])
           /\ rateLimitStore' = result.store
           /\ unpurged' = shadow.store
           /\ decision' = Decision(key, wallClock, DOMAIN rateLimitStore \ DOMAIN store,
                                   rateLimitStore, result.passed, result.status,
                                   result.retryAfter, shadow.passed)
           /\ watch' = WatchAfter(key, result.passed, mark)
    /\ UNCHANGED <<wallClock, wallTicks>>
    /\ UNCHANGED <<paymentVars, serviceVars, auditVars, sweepVars>>

\* time passes
Elapse(d) ==
    /\ decision = NoDecision
    /\ wallTicks < MaxWallTicks
    /\ wallClock' = wallClock + d
    /\ wallTicks' = wallTicks + 1
    /\ UNCHANGED <<rateLimitStore, decision, unpurged, watch>>
    /\ UNCHANGED <<paymentVars, serviceVars, auditVars, sweepVars>>

\* the 429 is on its way to the client, or the next handler has taken over
Handled ==
    /\ decision # NoDecision
    /\ decision' = NoDecision
    /\ UNCHANGED <<rateLimitStore, wallClock, wallTicks, unpurged, watch>>
    /\ UNCHANGED <<paymentVars, serviceVars, auditVars, sweepVars>>

\* the rate limiter with its purge, for several clients
LimiterNext ==
    \/ \E req \in Clients, purge \in BOOLEAN : rateLimitMiddleware(req, purge, FALSE)
    \/ \E d \in LimiterSteps : Elapse(d)
    \/ Handled

LimiterSpec == Init /\ [][LimiterNext]_vars

\* the requests of one client, where no request happens to purge
\* (Math.random() >= 0.01 every time), with the watch
Busy == {Client("203.0.113.7", "203.0.113.7")}

WatchNext ==
    \/ \E req \in Busy, mark \in BOOLEAN : rateLimitMiddleware(req, FALSE, mark)
    \/ \E d \in LimiterSteps : Elapse(d)
    \/ Handled

WatchSpec == Init /\ [][WatchNext]_vars

\* ------------------------------------------------------------------------
\* Claims about the rate limiter
\* ------------------------------------------------------------------------

\* a request has just gone through the rate limiter
Decided == decision # NoDecision

\* the request found an entry of its client whose window was not over
FoundWindow ==
    /\ decision.key \in DOMAIN decision.before
    /\ decision.at < decision.before[decision.key].resetTime

\* the request found its client's window with maxRequests requests counted
Exhausted ==
    /\ FoundWindow
    /\ decision.before[decision.key].count >= RateLimitOptions.maxRequests

\* the entries of the other clients are as the request found them, but for
\* those its purge removed, whose windows were over
OthersUntouched ==
    \A other \in DOMAIN decision.before \ {decision.key} :
        IF other \in DOMAIN rateLimitStore
        THEN rateLimitStore[other] = decision.before[other]
        ELSE decision.at > decision.before[other].resetTime

\* C32: the entry of a client counts the requests passed on in its window
\* (a request passed on makes it one more, or 1 in a new window), and never
\* more than maxRequests; a request that finds its client's window with
\* maxRequests requests counted is answered 429 and not passed on; every other
\* request is passed on, whatever the entries of other clients are, and no
\* request changes the entry of another client whose window is not over.
C32_RateLimit ==
    /\ \A key \in DOMAIN rateLimitStore :
           rateLimitStore[key].count \in 1..RateLimitOptions.maxRequests
    /\ Decided =>
           /\ Exhausted => ~decision.passed /\ decision.status = 429
           /\ ~Exhausted => decision.passed /\ decision.status = 0
           /\ decision.passed =>
                  rateLimitStore[decision.key].count =
                      IF FoundWindow THEN decision.before[decision.key].count + 1 ELSE 1
           /\ OthersUntouched

\* C32: a client is answered 429 in a window with maxRequests requests
\* counted, while another client has a window with fewer
C32_Witness ==
    /\ decision.status = 429
    /\ ~decision.passed
    /\ decision.before[decision.key].count = RateLimitOptions.maxRequests
    /\ \E other \in DOMAIN rateLimitStore \ {decision.key} :
           /\ decision.at < rateLimitStore[other].resetTime
           /\ rateLimitStore[other].count < RateLimitOptions.maxRequests

\* C36: in every interval of length windowMs that begins with a request
\* passed on, at most maxRequests requests of that client are passed on.
C36_SlidingBound == watch.passes <= RateLimitOptions.maxRequests

\* C37: a request answered 429 leaves its client's entry as it was, count and
\* resetTime; a request that finds its client's entry at or after its
\* resetTime is passed on and leaves the entry with count 1 and a window that
\* begins at the request.
C37_Readmitted ==
    Decided =>
        /\ decision.status = 429 =>
               /\ decision.key \in DOMAIN rateLimitStore
               /\ rateLimitStore[decision.key] = decision.before[decision.key]
        /\ (/\ decision.key \in DOMAIN decision.before
            /\ decision.at >= decision.before[decision.key].resetTime)
           => /\ decision.passed
              /\ rateLimitStore[decision.key] =
                     RateLimitEntry(1, decision.at + RateLimitOptions.windowMs)

\* C37: a client whose window had maxRequests requests counted sends a request
\* at the resetTime of that window, and it is passed on
C37_Witness ==
    /\ decision.passed
    /\ decision.key \in DOMAIN decision.before
    /\ decision.before[decision.key].count = RateLimitOptions.maxRequests
    /\ decision.at = decision.before[decision.key].resetTime
    /\ rateLimitStore[decision.key].count = 1

\* C38: every request is passed on exactly if it would have been had no purge
\* ever run; the store holds the entries it would hold then, but for entries
\* whose window is over.
C38_PurgeTransparent ==
    /\ Decided => (decision.passed <=> decision.unpurgedPassed)
    /\ DOMAIN rateLimitStore \subseteq DOMAIN unpurged
    /\ \A key \in DOMAIN unpurged :
           IF key \in DOMAIN rateLimitStore
           THEN rateLimitStore[key] = unpurged[key]
           ELSE wallClock > unpurged[key].resetTime

\* C38: the purge of a request removed the entry of its own client, which had
\* maxRequests requests counted, and that of another client
C38_Witness ==
    /\ decision.passed
    /\ decision.key \in decision.purged
    /\ decision.before[decision.key].count = RateLimitOptions.maxRequests
    /\ decision.purged # {decision.key}

\* ------------------------------------------------------------------------
\* The approval audit (routes/approvals.ts) and the revocations it generates
\* (services/tx-generator.ts)
\* ------------------------------------------------------------------------

\* types/approval.types.ts:3-11
SUPPORTED_CHAINS ==
    <<"ethereum", "base", "polygon", "avalanche", "arbitrum", "optimism", "bsc">>

\* types/approval.types.ts:67-75
CHAIN_IDS ==
    [ethereum |-> 1, base |-> 8453, polygon |-> 137, avalanche |-> 43114,
     arbitrum |-> 42161, optimism |-> 10, bsc |-> 56]

\* how many chains a query names
MaxChains == 2

Supported == {SUPPORTED_CHAINS[i] : i \in 1..Len(SUPPORTED_CHAINS)}

\* the chains of a query as the schema splits them (types/approval.types.ts:
\* 59-64): names of supported chains, and one that is none
ChainLists == UNION {[1..n -> Supported \cup {"solana"}] : n \in 1..MaxChains}

\* types/approval.types.ts:64: z.array(z.enum(SUPPORTED_CHAINS))
ValidChains(chains) == \A i \in 1..Len(chains) : chains[i] \in Supported

\* types/approval.types.ts:15-25, the fields the audit reads.
\* history only: chain is the network the approval was found on; a
\* TokenApproval has no such field.
TokenApproval(token_address, token_symbol, spender_address, chain) ==
    [token_address |-> token_address, token_symbol |-> token_symbol,
     spender_address |-> spender_address, chain |-> chain]

\* the approval the wallet has given on a chain: the same token and spender
\* addresses on every chain
ApprovalOn(chain) == TokenApproval("0xToken", "TKN", "0xSpender", chain)

\* DEPLOYMENT.md:241-260: the approvals of every requested chain, in the
\* order of the request, in one array; held are the chains the wallet has an
\* approval on and that could be read
RECURSIVE scanWalletApprovals(_, _)
scanWalletApprovals(chains, held) ==
    IF chains = <<>>
    THEN <<>>
    ELSE (IF Head(chains) \in held THEN <<ApprovalOn(Head(chains))>> ELSE <<>>)
             \o scanWalletApprovals(Tail(chains), held)

\* types/approval.types.ts:27-31
RiskFlag(type, severity) == [type |-> type, severity |-> severity]

\* the flags the risk detector may return for an approval
RiskLists ==
    { <<>>,
      <<RiskFlag("stale", "low")>>,
      <<RiskFlag("unlimited", "medium")>>,
      <<RiskFlag("stale", "low"), RiskFlag("suspicious_spender", "high")>>,
      <<RiskFlag("exploited_protocol", "critical"), RiskFlag("unlimited", "medium")>> }

\* tx-generator.ts:19
ApprovalKey(approval) == <<approval.token_address, "-", approval.spender_address>>

\* the record detectRisks returns: the flags of each flagged approval
FlagsOf(approvals, risks) ==
    [key \in {ApprovalKey(approvals[i]) : i \in 1..Len(approvals)} |-> risks]

\* tx-generator.ts:75
severityOrder == [critical |-> 4, high |-> 3, medium |-> 2, low |-> 1]

\* tx-generator.ts:76-87, the loop from the flag at position i on
RECURSIVE HighestFrom(_, _, _)
HighestFrom(risks, i, highest) ==
    IF i > Len(risks)
    THEN highest
    ELSE HighestFrom(risks, i + 1,
                     IF severityOrder[risks[i].severity] > severityOrder[highest]
                     THEN risks[i].severity
                     ELSE highest)

\* tx-generator.ts:74-88
getHighestSeverity(risks) == HighestFrom(risks, 1, "low")

\* tx-generator.ts:90-102
inferChainId(approval, chains) ==
    IF Len(chains) = 1 THEN CHAIN_IDS[chains[1]] ELSE CHAIN_IDS.ethereum

\* tx-generator.ts:47-72; data is the selector, the spender and the amount
createRevocationTx(approval, chainId, risks) ==
    [to |-> approval.token_address,
     data |-> <<"0x095ea7b3", approval.spender_address, 0>>,
     value |-> "0",
     chainId |-> chainId,
     token_address |-> approval.token_address,
     spender_address |-> approval.spender_address,
     description |-> <<approval.token_symbol, approval.spender_address, risks>>]

\* tx-generator.ts:19-32: the approval is flagged, and not only with low
\* severity
Revocable(approval, riskFlags) ==
    LET key == ApprovalKey(approval)
    IN  /\ key \in DOMAIN riskFlags
        /\ riskFlags[key] # <<>>
        /\ getHighestSeverity(riskFlags[key]) # "low"

\* tx-generator.ts:11-45
RECURSIVE generateRevocations(_, _, _)
generateRevocations(approvals, riskFlags, chains) ==
    IF approvals = <<>>
    THEN <<>>
    ELSE LET approval == Head(approvals)
             rest == generateRevocations(Tail(approvals), riskFlags, chains)
         IN  IF Revocable(approval, riskFlags)
             THEN <<createRevocationTx(approval, inferChainId(approval, chains),
                                       riskFlags[ApprovalKey(approval)])>> \o rest
             ELSE rest

\* history only: the approvals a revocation was generated for, in order
RECURSIVE RevokedOf(_, _)
RevokedOf(approvals, riskFlags) ==
    IF approvals = <<>>
    THEN <<>>
    ELSE (IF Revocable(Head(approvals), riskFlags) THEN <<Head(approvals)>> ELSE <<>>)
             \o RevokedOf(Tail(approvals), riskFlags)

\* routes/approvals.ts:24-106: one audit request.  chains are the chains of
\* the query, held those of them the scanner finds an approval on, risks the
\* flags the detector gives it, and detected whether the detector returns.
handleApprovalAudit(chains, held, risks, detected) ==
    /\ audit = NoAudit
    /\ LET approvals == scanWalletApprovals(chains, held)
           riskFlags == IF risks = <<>> THEN <<>> ELSE FlagsOf(approvals, risks)
       IN  audit' =
               IF ~ValidChains(chains)
               THEN ApprovalAuditResponse(400, <<>>, <<>>, <<>>, <<>>, <<>>)
               ELSE IF approvals = <<>>
               THEN ApprovalAuditResponse(200, chains, <<>>, <<>>, <<>>, <<>>)
               ELSE IF ~detected
               THEN ApprovalAuditResponse(500, <<>>, <<>>, <<>>, <<>>, <<>>)
               ELSE ApprovalAuditResponse(200, chains, approvals, riskFlags,
                        generateRevocations(approvals, riskFlags, chains),
                        RevokedOf(approvals, riskFlags))
    /\ UNCHANGED <<paymentVars, serviceVars, limiterVars, sweepVars>>

\* the response is on its way to the client
Respond ==
    /\ audit # NoAudit
    /\ audit' = NoAudit
    /\ UNCHANGED <<paymentVars, serviceVars, limiterVars, sweepVars>>

AuditNext ==
    \/ \E chains \in ChainLists, risks \in RiskLists, detected \in BOOLEAN :
           \E held \in SUBSET {chains[i] : i \in 1..Len(chains)} :
               handleApprovalAudit(chains, held, risks, detected)
    \/ Respond

AuditSpec == Init /\ [][AuditNext]_vars

\* C33: every revocation transaction of an audit carries the chain id of the
\* network its approval was found on.
C33_ChainOfApproval ==
    \A i \in 1..Len(audit.revoke_tx_data) :
        audit.revoke_tx_data[i].chainId = CHAIN_IDS[audit.revoked[i].chain]

\* ------------------------------------------------------------------------
\* The payment cache with and without its timer (middleware.ts:209-218)
\* ------------------------------------------------------------------------

\* what a request leaves behind: the cache and what was done with the request
Served(cache, outcome) == [cache |-> cache, outcome |-> outcome]

\* middleware.ts:29-88 with verifyPayment (110-164), for a request that runs
\* from its arrival to its end with no other request in between, on the cache
\* it is given.  rpc is the message getTransaction throws with, "" where it
\* returns; route is the mount the request was sent to.
x402Middleware(cache, header, t, rpc, route) ==
    LET decoded == decodeX402Payment(header)
        payload == header.payload
        signature == payload.signature
        answer(path, lookups, after, r) ==
            Served(after, Outcome(path, header, lookups, cache, r))
        granted(lookups) ==
            IF CacheHas(cache, signature)
            THEN IF IsExpired(t, cache[signature].timestamp)
                 THEN answer(route.path, lookups, CacheDelete(cache, signature),
                             send402Response(route.resource, route.price))
                 ELSE answer("", lookups, [cache EXCEPT ![signature] = CountRequest(@)],
                             CallNext(payload, t))
            ELSE answer("", lookups, CacheSet(cache, signature, NewProof(payload, t)),
                        CallNext(payload, t))
        rejected(error) ==
            answer("", 1, CacheAfterReject(cache, payload, t),
                   sendX402Error(MessageOr(error, "Payment verification failed"), 402))
    IN  IF header.kind = "absent"
        THEN answer(route.path, 0, cache, send402Response(route.resource, route.price))
        ELSE IF ~decoded.ok
        THEN answer("", 0, cache, sendX402Error(
                 Err("Failed to decode x402 payment: ", decoded.message, 0, 0), 400))
        ELSE IF header.x402Version # 1
        THEN answer("", 0, cache,
                    sendX402Error(Err("Unsupported x402 version", "", 0, 0), 400))
        ELSE IF header.network # "solana-mainnet"
        THEN answer("", 0, cache, sendX402Error(Err("Unsupported network", "", 0, 0), 400))
        ELSE IF CacheHas(cache, signature)
        THEN granted(0)
        ELSE IF rpc # ""
        THEN rejected(Err(OrElse(rpc, "Payment verification failed"), "", 0, 0))
        ELSE LET verification == VerifyTransaction(payload, getTransaction(signature))
             IN  IF verification.success THEN granted(1) ELSE rejected(verification.error)

\* the entry of the header's signature in the cache, if it has one, has
\* counted fewer than MaxCount requests
CanCount(cache, header) ==
    (header.kind # "absent" /\ CacheHas(cache, header.payload.signature))
        => cache[header.payload.signature].requestCount < MaxCount

\* one request goes through the middleware: as it does with the cache the
\* timer sweeps, and as it would with a cache that was never swept
PaidRequest(header, rpc, route) ==
    /\ last = NoOutcome
    /\ compared = NoComparison
    /\ inflight = EmptyBag
    /\ CanCount(paymentCache, header)
    /\ CanCount(lazyCache, header)
    /\ LET swept == x402Middleware(paymentCache, header, now, rpc, route)
           lazy == x402Middleware(lazyCache, header, now, rpc, route)
       IN  /\ paymentCache' = swept.cache
           /\ lazyCache' = lazy.cache
           /\ compared' = Compared(swept.outcome, lazy.outcome)
    /\ admissions' = AdmissionsFor(paymentCache')
    /\ UNCHANGED <<now, advances, inflight, last, verifiedOK, firstAccepted>>
    /\ UNCHANGED <<serviceVars, limiterVars, auditVars>>

\* the response is on its way to the client, or the gated handler has taken
\* over
Delivered ==
    /\ compared # NoComparison
    /\ compared' = NoComparison
    /\ UNCHANGED lazyCache
    /\ UNCHANGED <<paymentVars, serviceVars, limiterVars, auditVars>>

SweepNext ==
    \/ \E header \in Headers, rpc \in {""} \cup RpcErrorMessages, route \in Routes :
           PaidRequest(header, rpc, route)
    \/ cleanExpiredPayments
    \/ \E d \in AdvanceSteps : Tick(d)
    \/ Delivered

SweepSpec == Init /\ [][SweepNext]_vars

\* C35: every request gets the outcome it would get had no sweep ever run:
\* next() or the same kind of response with the same status, after as many
\* ledger lookups.
C35_SweepIsLazyEviction ==
    /\ compared.swept.response.kind = compared.lazy.response.kind
    /\ compared.swept.response.status = compared.lazy.response.status
    /\ compared.swept.lookups = compared.lazy.lookups

====
